---- MODULE Spec2Model ----
(***************************************************************************)
(* Model of the worker-model-sync-tts service: the SQS-driven event loop   *)
(* (ModelSyncService), the download-verify-install protocol (S3Service),   *)
(* the integrity helpers (FileValidator) and the liveness tracker          *)
(* (HealthCheckService).                                                    *)
(*                                                                         *)
(* Modelling conventions                                                   *)
(*  - Strings that the code inspects (object keys, paths) are sequences of *)
(*    one-character strings, so endsWith / split / decodeURIComponent are  *)
(*    computed, not assumed.                                               *)
(*  - A remote object is a descriptor [ver, size]: the ver-th version put  *)
(*    into the bucket, of size chunks.  Its body is size chunks, every     *)
(*    chunk tagged with the descriptor.  A local file is a sequence of     *)
(*    chunk tags; the tag Hole is a run of zero bytes never written.       *)
(*  - Time is logical: the LastModified of version v is v, and the mtime   *)
(*    of a local file is the number of versions that had been put when     *)
(*    the file was last written.                                           *)
(*  - Every await of the code is a step; steps of different asynchronous   *)
(*    activities interleave.                                               *)
(***************************************************************************)
EXTENDS Integers, Sequences, FiniteSets, TLC

(***************************************************************************)
(* Bounds of the model                                                     *)
(***************************************************************************)
\* largest object size, in chunks
MaxSize == 2
\* number of object versions the remote store ever holds
MaxVer == 1
\* number of ReceiveMessage calls that return messages
MaxReceives == 2
\* number of triggerFullSync invocations
MaxSyncs == 2
\* number of process crashes followed by a restart
MaxCrashes == 1

(***************************************************************************)
(* Character-level helpers                                                 *)
(***************************************************************************)
\* printable ASCII, code points 32..126, in order (the two quotes, the
\* backslash and the backtick are spelled out)
Ascii ==
  << " ", "!", "DQUOTE", "#", "$", "%", "&", "SQUOTE", "(", ")", "*", "+", ",", "-", ".", "/",
     "0", "1", "2", "3", "4", "5", "6", "7", "8", "9", ":", ";", "<", "=", ">", "?",
     "@", "A", "B", "C", "D", "E", "F", "G", "H", "I", "J", "K", "L", "M", "N", "O",
     "P", "Q", "R", "S", "T", "U", "V", "W", "X", "Y", "Z", "[", "BSLASH", "]", "^", "_",
     "BTICK", "a", "b", "c", "d", "e", "f", "g", "h", "i", "j", "k", "l", "m", "n", "o",
     "p", "q", "r", "s", "t", "u", "v", "w", "x", "y", "z", "{", "|", "}", "~" >>

\* code point of a printable ASCII character
CodeOf(c) == 31 + (CHOOSE i \in 1..Len(Ascii) : Ascii[i] = c)

\* String.prototype.toLowerCase on one character
ToLowerChar(c) ==
  IF CodeOf(c) >= 65 /\ CodeOf(c) <= 90 THEN Ascii[CodeOf(c) + 32 - 31] ELSE c

\* String.prototype.toLowerCase
ToLowerCase(s) == [i \in 1..Len(s) |-> ToLowerChar(s[i])]

\* String.prototype.endsWith
EndsWith(s, suffix) ==
  /\ Len(s) >= Len(suffix)
  /\ SubSeq(s, Len(s) - Len(suffix) + 1, Len(s)) = suffix

\* number of parts of s.split on the path separator
SplitCount(s) == 1 + Cardinality({i \in 1..Len(s) : s[i] = "/"})

\* value of a hexadecimal digit, -1 when c is none
HexVal(c) ==
  LET n == CodeOf(c)
  IN  IF n >= 48 /\ n <= 57 THEN n - 48
      ELSE IF n >= 65 /\ n <= 70 THEN n - 55
      ELSE IF n >= 97 /\ n <= 102 THEN n - 87
      ELSE -1

RECURSIVE DecodeFrom(_, _)
\* decodeURIComponent from position i on: [ok, val]; ok = FALSE is a URIError.
\* Only single-byte (ASCII) escapes decode; an escape >= 0x80 that is not part
\* of a well-formed UTF-8 sequence is a URIError, as is a percent sign without two
\* hexadecimal digits.
DecodeFrom(s, i) ==
  IF i > Len(s) THEN [ok |-> TRUE, val |-> << >>]
  ELSE IF s[i] # "%"
    THEN LET rest == DecodeFrom(s, i + 1)
         IN  [ok |-> rest.ok, val |-> <<s[i]>> \o rest.val]
  ELSE IF i + 2 > Len(s) \/ HexVal(s[i + 1]) < 0 \/ HexVal(s[i + 2]) < 0
    THEN [ok |-> FALSE, val |-> << >>]
  ELSE LET byte == 16 * HexVal(s[i + 1]) + HexVal(s[i + 2])
           rest == DecodeFrom(s, i + 3)
       IN  IF byte < 32 \/ byte > 126
             THEN [ok |-> FALSE, val |-> << >>]
             ELSE [ok |-> rest.ok, val |-> <<Ascii[byte - 31]>> \o rest.val]

\* decodeURIComponent(rawKey)
DecodeURIComponent(s) == DecodeFrom(s, 1)

(***************************************************************************)
(* FileValidator.isModelFile                                               *)
(***************************************************************************)
modelExtensions ==
  { <<".", "p", "t", "h">>, <<".", "b", "i", "n">>, <<".", "o", "n", "n", "x">>,
    <<".", "s", "a", "f", "e", "t", "e", "n", "s", "o", "r", "s">>,
    <<".", "p", "k", "l">>, <<".", "j", "s", "o", "n">>, <<".", "t", "x", "t">> }

isModelFile(key) == \E ext \in modelExtensions : EndsWith(ToLowerCase(key), ext)

(***************************************************************************)
(* Keys, paths                                                             *)
(***************************************************************************)
\* the object key the scenarios are about: "e/v/m.bin"
K1 == <<"e", "/", "v", "/", "m", ".", "b", "i", "n">>

\* keys of objects the remote bucket may hold
Keys == {K1}

\* a second model key, "e/v/n.bin", and a key that is no model file,
\* "e/v/m.log"
K2 == <<"e", "/", "v", "/", "n", ".", "b", "i", "n">>
KLog == <<"e", "/", "v", "/", "m", ".", "l", "o", "g">>

\* keys of a bucket with several objects
BucketKeys == {K1, K2, KLog}

\* MODELS_BASE_PATH (its default "/models", shortened to "/m")
modelsBasePath == <<"/", "m">>

\* ModelSyncService.getLocalModelPath
getLocalModelPath(s3Key) == modelsBasePath \o <<"/">> \o s3Key

\* a variant of TempPath that stages the download at the final path itself
TempPathInPlace(localPath) == localPath

\* S3Service.downloadFile: tempPath = `${localPath}.tmp`
TempPath(localPath) == localPath \o <<".", "t", "m", "p">>

Paths == {getLocalModelPath(k) : k \in Keys}
           \cup {TempPath(getLocalModelPath(k)) : k \in Keys}

BucketPaths == {getLocalModelPath(k) : k \in BucketKeys}
                 \cup {TempPath(getLocalModelPath(k)) : k \in BucketKeys}

(***************************************************************************)
(* Queue messages (types/events: S3EventRecord)                            *)
(***************************************************************************)
\* a record with the s3.object.key structure; eventName is split at ':'
Rec(eventName, rawKey) == [s3 |-> TRUE, eventName |-> eventName, key |-> rawKey]

\* "e/v/m%2Ebin": the key K1 as S3 URL-encodes it in a notification
RawK1 == <<"e", "/", "v", "/", "m", "%", "2", "E", "b", "i", "n">>

RCreated == Rec(<<"ObjectCreated", "Put">>, RawK1)
RRemoved == Rec(<<"s3", "ObjectRemoved", "Delete">>, K1)
\* a record without the s3 member
RNoS3 == [s3 |-> FALSE, eventName |-> <<"ObjectCreated", "Put">>, key |-> << >>]
\* "e/v/m%.bin": not valid URL-encoding
RBadEnc == Rec(<<"ObjectCreated", "Put">>,
               <<"e", "/", "v", "/", "m", "%", ".", "b", "i", "n">>)
\* "m.bin": a key of one path segment
ROneSeg == Rec(<<"ObjectCreated", "Put">>, <<"m", ".", "b", "i", "n">>)
\* "e/v/m.log": not a model file
RNonModel == Rec(<<"ObjectCreated", "Put">>,
                 <<"e", "/", "v", "/", "m", ".", "l", "o", "g">>)
\* an event kind the engine does not handle
ROther == Rec(<<"s3", "ObjectRestore", "Post">>, K1)

\* a message body: not JSON, JSON without a Records array, or JSON with one
NotJson == [json |-> FALSE, hasRecords |-> FALSE, Records |-> << >>]
NoRecords == [json |-> TRUE, hasRecords |-> FALSE, Records |-> << >>]
Body(records) == [json |-> TRUE, hasRecords |-> TRUE, Records |-> records]

\* the bodies the queue may deliver
Bodies ==
  { NotJson, NoRecords,
    Body(<<RCreated>>), Body(<<RRemoved>>), Body(<<RCreated, RRemoved>>),
    Body(<<RCreated, RCreated>>),
    Body(<<RCreated, RNoS3>>), Body(<<RNoS3, RCreated>>),
    Body(<<RCreated, RBadEnc>>), Body(<<RBadEnc, RCreated>>),
    Body(<<ROneSeg, RCreated>>), Body(<<RNonModel, ROther>>) }

MsgIds == {"m1", "m2"}

\* no message is being iterated
NoMsg == "none"

\* String.prototype.includes on an event name, at the granularity of its parts
Includes(eventName, word) == \E i \in 1..Len(eventName) : eventName[i] = word

(***************************************************************************)
(* State                                                                   *)
(***************************************************************************)
\* the asynchronous activities of one process: the event loop (start) and a
\* manual full sync (POST /sync/full -> triggerFullSync)
Procs == {"loop", "sync"}

\* a remote object: the ver-th version put, of size chunks (version 0 is an
\* object the bucket held before the service started); NoObj when absent
NoObj == [ver |-> -1, size |-> 0]
Obj(v, size) == [ver |-> v, size |-> size]

\* a chunk no write has filled
Hole == NoObj

\* a path that holds no file
Absent == [ex |-> FALSE, data |-> << >>, mtime |-> 0]

\* fd values: no descriptor open; a descriptor of a file no path links to
NoFd == << >>
Orphan == <<"(deleted)">>

VARIABLES
  remote,      \* remote[k]: the object at key k, NoObj when absent
  zeroPut,     \* an object of size 0 has been put
  epoch,       \* number of versions put so far
  queue,       \* queue[m]: [body, st], st is "queued", "deleted" or "gone" (never sent)
  files,       \* files[path]: [ex, data, mtime], Absent when no file is there
  fd,          \* fd[p]: the path at which the file of p's write stream is linked
  pc,          \* pc[p]: the await at which activity p is suspended
  dl,          \* dl[p]: locals of p's shouldUpdateFile / downloadFile call
  isRunning,   \* ModelSyncService.isRunning
  batch,       \* result.Messages not yet iterated
  message,     \* the message of the current iteration of processMessages
  recIdx,      \* index of the record being handled in the current message
  health,      \* HealthCheckService: [last, healthy, idle, report]
  apiHealth,   \* the HealthCheckService instance that main hands to ApiService
  notes,       \* notifications sent while handling the current message
  summary,     \* triggerFullSync: [todo, total, synced, errors, returned]
  receives,    \* ReceiveMessage calls that returned messages
  syncs,       \* triggerFullSync calls issued
  crashes,     \* crashes so far
  listing,     \* locals and result of a paginated listAllModels call
  hist         \* history of the current delivery / call, for the properties

vars == <<remote, zeroPut, epoch, queue, files, fd, pc, dl, isRunning, batch,
          message, recIdx, health, apiHealth, notes, summary, receives, syncs,
          crashes, listing, hist>>

envVars == <<remote, zeroPut, epoch>>
fsVars == <<files, fd>>
loopVars == <<queue, isRunning, batch, message, health, notes, receives>>
callVars == <<recIdx, summary, hist>>
boundVars == <<syncs, crashes, listing, apiHealth>>

(***************************************************************************)
(* The local filesystem                                                    *)
(***************************************************************************)
Exists(path) == files[path].ex

\* fs.stat(path).size and .mtime, of an existing path
SizeOf(path) == Len(files[path].data)
MtimeOf(path) == files[path].mtime

\* data after a write of one chunk at offset off (bytes skipped read as 0)
WriteAt(data, off, tag) ==
  LET n == IF Len(data) > off + 1 THEN Len(data) ELSE off + 1
  IN  [j \in 1..n |-> IF j = off + 1 THEN tag
                      ELSE IF j <= Len(data) THEN data[j] ELSE Hole]

\* open(path, O_WRONLY | O_CREAT | O_TRUNC) by p: an existing file is
\* truncated in place, other descriptors of it stay valid
FsOpenTrunc(p, path) ==
  /\ files' = [files EXCEPT ![path] = [ex |-> TRUE, data |-> << >>, mtime |-> epoch]]
  /\ fd' = [fd EXCEPT ![p] = path]

\* write(fd[p]) of one chunk at the descriptor offset: it lands in the file
\* the descriptor was opened on, wherever that file is linked now
FsWrite(p, off, tag) ==
  /\ IF fd[p] = Orphan
       THEN UNCHANGED files
       ELSE files' = [files EXCEPT ![fd[p]] =
                        [ex |-> TRUE, data |-> WriteAt(@.data, off, tag), mtime |-> epoch]]
  /\ UNCHANGED fd

\* close(fd[p])
FsClose(p) ==
  /\ fd' = [fd EXCEPT ![p] = NoFd]
  /\ UNCHANGED files

\* unlink(path); a missing path is left as it is (fs.remove is rm -f)
FsRemove(path) ==
  /\ files' = [files EXCEPT ![path] = Absent]
  /\ fd' = [q \in Procs |-> IF fd[q] = path THEN Orphan ELSE fd[q]]

\* rename(src, dst) of an existing src: the file at dst, if any, is unlinked
FsRename(src, dst) ==
  /\ files' = [files EXCEPT ![dst] = files[src], ![src] = Absent]
  /\ fd' = [q \in Procs |-> IF fd[q] = dst THEN Orphan
                            ELSE IF fd[q] = src THEN dst ELSE fd[q]]

(***************************************************************************)
(* Decisions of the code, as operators                                     *)
(***************************************************************************)
\* Variants of four of the decisions below, each departing from the code in
\* one point; the properties at the end of the module are re-checked with a
\* variant in place of the original to show that they depend on it.
\* - the comparison of the modification times is not strict
NeedsUpdateNotStrict(localSize, localMtime, s3Size, s3LastModified) ==
  \/ localSize # s3Size
  \/ s3LastModified >= localMtime

\* - an error of handleMessage escapes processMessages and ends the loop
RaisedThenStopped == "stopped"

\* - after an error of handleMessage the loop polls again at once
RaisedThenReceive == "receive"

\* - pipeline resolves although the write stream has not finished
PipelineSettledEarly(p) == TRUE

\* - a raised message goes on to the delete request
RaisedThenDelete == "delete_msg"

\* - a raised message goes on to the liveness tracker
RaisedThenTracked == "update_health"

\* - the inner catch rethrows without cleaning up
InnerCatchNoCleanup == "dl_ret"

\* FileValidator.verifyFileIntegrity(filePath, expectedSize): no hash is
\* passed by downloadFile.  A failing stat is caught and answers false; the
\* size is compared only when expectedSize is truthy (non-zero).
verifyFileIntegrity(filePath, expectedSize) ==
  IF ~Exists(filePath) THEN FALSE
  ELSE IF expectedSize # 0 /\ SizeOf(filePath) # expectedSize THEN FALSE
  ELSE TRUE

\* S3Service.shouldUpdateFile, the comparison of local and remote attributes
NeedsUpdate(localSize, localMtime, s3Size, s3LastModified) ==
  \/ localSize # s3Size
  \/ s3LastModified > localMtime

\* await pipeline(bodyStream, writeStream) resolves once the write stream has
\* finished and closed
PipelineSettled(p) == dl[p].closed

\* ModelSyncService.processMessages: where the loop goes when handleMessage
\* throws (the catch block logs and the for loop takes the next message)
RaisedNext == "next_msg"

\* S3Service.downloadFile: where an error inside the inner try goes (the inner
\* catch cleans the staging file up and rethrows)
InnerCatch == "dl_clean2"

\* the step of ModelSyncService.handleS3Event for one record
\* a variant of handleS3Event without the filter on the key and with a key of
\* one path segment taken as an update
handleS3EventUnfiltered(record) ==
  IF ~record.s3 THEN "throw"
  ELSE IF ~DecodeURIComponent(record.key).ok THEN "throw"
  ELSE IF Includes(record.eventName, "ObjectCreated")
          \/ Includes(record.eventName, "ObjectModified") THEN "update"
  ELSE IF Includes(record.eventName, "ObjectRemoved") THEN "delete"
  ELSE "ignore"

handleS3Event(record) ==
  IF ~record.s3 THEN "throw"
  ELSE LET key == DecodeURIComponent(record.key)
       IN  IF ~key.ok THEN "throw"
           ELSE IF ~isModelFile(key.val) THEN "skip"
           ELSE IF SplitCount(key.val) < 2 THEN "skip"
           ELSE IF Includes(record.eventName, "ObjectCreated")
                   \/ Includes(record.eventName, "ObjectModified") THEN "update"
           ELSE IF Includes(record.eventName, "ObjectRemoved") THEN "delete"
           ELSE "ignore"

(***************************************************************************)
(* Locals of a shouldUpdateFile / downloadFile call                        *)
(***************************************************************************)
\* key: s3Key; exp: objectInfo.size (-1 before the HEAD answered); body: the
\* object whose body is streamed (s3Info inside shouldUpdateFile); n: downloadedSize; ok: the success member
\* of the result.  suErr / opened / closed / rmfail / e record what happened:
\* the catch of shouldUpdateFile answered true, the staging file was created,
\* the write stream completed, the latest removal of the staging file failed,
\* the value of epoch when the call began.  why records the return statement
\* by which shouldUpdateFile answered true: "nolocal", "size", "newer" or
\* "error" ("none" before it answered).
NewDl(key) == [key |-> key, exp |-> -1, body |-> NoObj, n |-> 0, ok |-> FALSE,
               suErr |-> FALSE, opened |-> FALSE, closed |-> FALSE,
               rmfail |-> FALSE, e |-> epoch, why |-> "none", gone |-> FALSE]

NoDl == [key |-> << >>, exp |-> -1, body |-> NoObj, n |-> 0, ok |-> FALSE,
         suErr |-> FALSE, opened |-> FALSE, closed |-> FALSE,
         rmfail |-> FALSE, e |-> 0, why |-> "none", gone |-> FALSE]

LocalOf(p) == getLocalModelPath(dl[p].key)
TempOf(p) == TempPath(LocalOf(p))

Goto(p, label) == pc' = [pc EXCEPT ![p] = label]

\* the latest finished runs of the update path of the loop: res - "installed"
\* (downloadFile succeeded), "uptodate" (shouldUpdateFile answered false) or
\* "none" (no run yet, or the latest run failed or was a deletion); e - the
\* value of epoch when the run began; twice - an "uptodate" run that followed a
\* successful run; unsent - the notification of the latest install failed;
\* gone - the latest run failed because downloadFile found no remote object
NoLast == [res |-> "none", e |-> 0, twice |-> FALSE, unsent |-> FALSE,
           gone |-> FALSE]

\* history: mlog - what happened to the current message, in order; done -
\* records of it handled without error; cause - why its handling raised
\* ("receive": the latest receive call failed);
\* last - see NoLast; got - the batch being iterated, as it was received;
\* cut - the await at which the loop was suspended when stop() was called
\* or the process exited
NoHist == [mlog |-> << >>, done |-> 0, cause |-> "none", last |-> NoLast,
           got |-> << >>, cut |-> "none"]

\* hist.last after a run of the update path with this outcome
LastAfter(p, outcome) ==
  CASE outcome = "installed" ->
         [res |-> "installed", e |-> dl[p].e, twice |-> FALSE, unsent |-> FALSE,
          gone |-> FALSE]
    [] outcome = "uptodate" ->
         IF hist.last.res = "none"
           THEN [res |-> "uptodate", e |-> dl[p].e, twice |-> FALSE,
                 unsent |-> FALSE, gone |-> FALSE]
           ELSE [res |-> "uptodate", e |-> hist.last.e, twice |-> TRUE,
                 unsent |-> hist.last.unsent, gone |-> FALSE]
    [] OTHER -> [NoLast EXCEPT !.gone = dl[p].gone]

(***************************************************************************)
(* Return of the update path to its caller                                 *)
(***************************************************************************)
\* handleMessage throws: processMessages catches, logs, takes the next message
Raise(cause, last) ==
  /\ Goto("loop", RaisedNext)
  /\ hist' = [hist EXCEPT !.mlog = Append(@, "raised"), !.cause = cause,
                          !.last = last]
  /\ dl' = [dl EXCEPT !["loop"] = NoDl]
  /\ recIdx' = 0
  /\ UNCHANGED summary

\* handleS3Event returned for the current record
RecordDone(last) ==
  /\ Goto("loop", "record")
  /\ recIdx' = recIdx + 1
  /\ hist' = [hist EXCEPT !.done = @ + 1, !.last = last]
  /\ dl' = [dl EXCEPT !["loop"] = NoDl]
  /\ UNCHANGED summary

\* ModelSyncService.handleModelUpdate after shouldUpdateFile / downloadFile
ReturnLoop(outcome) ==
  LET last == LastAfter("loop", outcome)
  IN  CASE outcome = "uptodate" -> RecordDone(last)
        [] outcome = "installed" ->
             /\ Goto("loop", "notify")
             /\ hist' = [hist EXCEPT !.last = last]
             /\ UNCHANGED <<recIdx, summary, dl>>
        [] outcome = "failed" -> Raise("download", last)

\* a variant of ReturnSync in which a failed key ends the loop over allModels
ReturnSyncAbort(outcome) ==
  /\ Goto("sync", "next_key")
  /\ summary' = [summary EXCEPT
       !.todo = IF outcome = "failed" THEN << >> ELSE Tail(@),
       !.synced = IF outcome = "installed" THEN @ + 1 ELSE @,
       !.errors = IF outcome = "failed" THEN Append(@, dl["sync"].key) ELSE @,
       !.outs = Append(@, [key |-> dl["sync"].key, out |-> outcome,
                           why |-> dl["sync"].why])]
  /\ dl' = [dl EXCEPT !["sync"] = NoDl]
  /\ UNCHANGED <<recIdx, hist>>

\* a variant of ReturnSync that counts a key found up to date as synced
ReturnSyncCountAll(outcome) ==
  /\ Goto("sync", "next_key")
  /\ summary' = [summary EXCEPT
       !.todo = Tail(@),
       !.synced = IF outcome # "failed" THEN @ + 1 ELSE @,
       !.errors = IF outcome = "failed" THEN Append(@, dl["sync"].key) ELSE @,
       !.outs = Append(@, [key |-> dl["sync"].key, out |-> outcome,
                           why |-> dl["sync"].why])]
  /\ dl' = [dl EXCEPT !["sync"] = NoDl]
  /\ UNCHANGED <<recIdx, hist>>

\* ModelSyncService.triggerFullSync, the body of the loop over allModels
ReturnSync(outcome) ==
  /\ Goto("sync", "next_key")
  /\ summary' = [summary EXCEPT
       !.todo = Tail(@),
       !.synced = IF outcome = "installed" THEN @ + 1 ELSE @,
       !.errors = IF outcome = "failed" THEN Append(@, dl["sync"].key) ELSE @,
       !.outs = Append(@, [key |-> dl["sync"].key, out |-> outcome,
                           why |-> IF outcome # "uptodate" THEN dl["sync"].why
                                   ELSE IF dl["sync"].body = NoObj THEN "absent"
                                   ELSE "same"])]
  /\ dl' = [dl EXCEPT !["sync"] = NoDl]
  /\ UNCHANGED <<recIdx, hist>>

\* sets pc, dl, recIdx, summary and hist
Return(p, outcome) == IF p = "loop" THEN ReturnLoop(outcome) ELSE ReturnSync(outcome)

(***************************************************************************)
(* S3Service.shouldUpdateFile                                              *)
(***************************************************************************)
\* a variant of SuExists in which a missing local file answers false
SuExistsMissingFalse(p) ==
  /\ pc[p] = "su_exists"
  /\ IF Exists(LocalOf(p))
       THEN Goto(p, "su_head") /\ UNCHANGED <<dl, callVars>>
       ELSE Return(p, "uptodate")
  /\ UNCHANGED <<envVars, loopVars, boundVars, fsVars>>

\* await fs.pathExists(localPath)
SuExists(p) ==
  /\ pc[p] = "su_exists"
  /\ IF Exists(LocalOf(p))
       THEN Goto(p, "su_head") /\ UNCHANGED dl
       ELSE Goto(p, "dl_head") /\ dl' = [dl EXCEPT ![p].why = "nolocal"]
  /\ UNCHANGED <<envVars, loopVars, boundVars, fsVars, callVars>>

\* a variant of SuHead in which an absent remote object answers true
SuHeadAbsentTrue(p) ==
  /\ pc[p] = "su_head"
  /\ \/ /\ Goto(p, "dl_head")
        /\ dl' = [dl EXCEPT ![p].suErr = TRUE, ![p].why = "error"]
        /\ UNCHANGED callVars
     \/ /\ remote[dl[p].key] = NoObj
        /\ Goto(p, "dl_head")
        /\ dl' = [dl EXCEPT ![p].why = "absent"]
        /\ UNCHANGED callVars
     \/ /\ remote[dl[p].key] # NoObj
        /\ dl' = [dl EXCEPT ![p].body = remote[dl[p].key]]
        /\ Goto(p, "su_stat")
        /\ UNCHANGED callVars
  /\ UNCHANGED <<envVars, loopVars, boundVars, fsVars>>

\* await this.getObjectInfo(s3Key)
SuHead(p) ==
  /\ pc[p] = "su_head"
  /\ \/ \* HeadObject fails: the catch answers true
        /\ Goto(p, "dl_head")
        /\ dl' = [dl EXCEPT ![p].suErr = TRUE, ![p].why = "error"]
        /\ UNCHANGED callVars
     \/ \* the object is absent: false
        /\ remote[dl[p].key] = NoObj
        /\ Return(p, "uptodate")
     \/ /\ remote[dl[p].key] # NoObj
        /\ dl' = [dl EXCEPT ![p].body = remote[dl[p].key]]
        /\ Goto(p, "su_stat")
        /\ UNCHANGED callVars
  /\ UNCHANGED <<envVars, loopVars, boundVars, fsVars>>

\* await fs.stat(localPath), then the comparisons; a failing stat (the file
\* is gone) is caught and answers true
SuStat(p) ==
  /\ pc[p] = "su_stat"
  /\ IF ~Exists(LocalOf(p))
       THEN /\ Goto(p, "dl_head")
            /\ dl' = [dl EXCEPT ![p].body = NoObj, ![p].suErr = TRUE,
                                 ![p].why = "error"]
            /\ UNCHANGED callVars
       ELSE IF NeedsUpdate(SizeOf(LocalOf(p)), MtimeOf(LocalOf(p)),
                           dl[p].body.size, dl[p].body.ver)
         THEN /\ Goto(p, "dl_head")
              /\ dl' = [dl EXCEPT ![p].body = NoObj,
                                   ![p].why = IF SizeOf(LocalOf(p)) # dl[p].body.size
                                                THEN "size" ELSE "newer"]
              /\ UNCHANGED callVars
         ELSE Return(p, "uptodate")
  /\ UNCHANGED <<envVars, loopVars, boundVars, fsVars>>

(***************************************************************************)
(* S3Service.downloadFile                                                  *)
(***************************************************************************)
\* a variant of DlFail without the outer catch: the error reaches the caller
DlFailRethrow(p) == Return(p, "failed")

\* the outer catch: the call returns success = false
DlFail(p) ==
  /\ Goto(p, "dl_ret")
  /\ UNCHANGED <<dl, callVars>>

\* await this.getObjectInfo(s3Key)
DlHead(p) ==
  /\ pc[p] = "dl_head"
  /\ \/ \* HeadObject fails with an error other than NotFound
        DlFail(p)
     \/ \* NotFound: getObjectInfo returns null, 'S3 object not found' is thrown
        /\ remote[dl[p].key] = NoObj
        /\ dl' = [dl EXCEPT ![p].gone = TRUE]
        /\ Goto(p, "dl_ret")
        /\ UNCHANGED callVars
     \/ /\ remote[dl[p].key] # NoObj
        /\ dl' = [dl EXCEPT ![p].exp = remote[dl[p].key].size]
        /\ Goto(p, "dl_space")
        /\ UNCHANGED callVars
  /\ UNCHANGED <<envVars, loopVars, boundVars, fsVars>>

\* await fs.ensureDir(targetDir); await FileValidator.checkDiskSpace(targetDir)
DlSpace(p) ==
  /\ pc[p] = "dl_space"
  /\ \/ DlFail(p)
     \/ /\ Goto(p, "dl_get")
        /\ UNCHANGED <<dl, callVars>>
  /\ UNCHANGED <<envVars, loopVars, boundVars, fsVars>>

\* await this.s3Client.send(GetObjectCommand); then createWriteStream(tempPath)
DlGet(p) ==
  /\ pc[p] = "dl_get"
  /\ \/ \* GetObject fails, the object is absent, or the response has no Body
        DlFail(p)
     \/ /\ remote[dl[p].key] # NoObj
        /\ dl' = [dl EXCEPT ![p].body = remote[dl[p].key]]
        /\ Goto(p, "dl_open")
        /\ UNCHANGED callVars
  /\ UNCHANGED <<envVars, loopVars, boundVars, fsVars>>

\* the write stream opens tempPath (flags w)
DlOpen(p) ==
  /\ pc[p] = "dl_open"
  /\ \/ \* open fails: pipeline rejects
        /\ Goto(p, InnerCatch)
        /\ UNCHANGED <<dl, fsVars>>
     \/ /\ FsOpenTrunc(p, TempOf(p))
        /\ dl' = [dl EXCEPT ![p].opened = TRUE]
        /\ Goto(p, "dl_stream")
  /\ UNCHANGED <<envVars, loopVars, boundVars, callVars>>

\* one chunk of the body is counted (the data listener) and written
DlWrite(p) ==
  /\ pc[p] = "dl_stream"
  /\ fd[p] # NoFd
  /\ dl[p].n < dl[p].body.size
  /\ FsWrite(p, dl[p].n, dl[p].body)
  /\ dl' = [dl EXCEPT ![p].n = @ + 1]
  /\ UNCHANGED <<envVars, loopVars, boundVars, callVars, pc>>

\* the body stream or a write fails: pipeline destroys both streams, rejects
DlStreamError(p) ==
  /\ pc[p] = "dl_stream"
  /\ fd[p] # NoFd
  /\ FsClose(p)
  /\ Goto(p, InnerCatch)
  /\ UNCHANGED <<envVars, loopVars, boundVars, callVars, dl>>

\* the body ended and every chunk is written: the write stream finishes, closes
DlFinish(p) ==
  /\ pc[p] = "dl_stream"
  /\ fd[p] # NoFd
  /\ dl[p].n = dl[p].body.size
  /\ FsClose(p)
  /\ dl' = [dl EXCEPT ![p].closed = TRUE]
  /\ UNCHANGED <<envVars, loopVars, boundVars, callVars, pc>>

\* await pipeline(bodyStream, writeStream) resolves
DlPipeline(p) ==
  /\ pc[p] = "dl_stream"
  /\ PipelineSettled(p)
  /\ Goto(p, "dl_verify")
  /\ UNCHANGED <<envVars, loopVars, boundVars, callVars, dl, fsVars>>

\* await FileValidator.verifyFileIntegrity(tempPath, objectInfo.size)
DlVerify(p) ==
  /\ pc[p] = "dl_verify"
  /\ IF verifyFileIntegrity(TempOf(p), dl[p].exp)
       THEN Goto(p, "dl_move")
       ELSE Goto(p, "dl_clean1")
  /\ UNCHANGED <<envVars, loopVars, boundVars, callVars, dl, fsVars>>

\* fs.move(tempPath, localPath, {overwrite: true}) of fs-extra is three awaits:
\* stat of the source (checkPaths), remove(dest), rename(src, dest).
\* First await: the source must exist.
DlMove(p) ==
  /\ pc[p] = "dl_move"
  /\ IF Exists(TempOf(p)) THEN Goto(p, "dl_move_rm") ELSE Goto(p, InnerCatch)
  /\ UNCHANGED <<envVars, loopVars, boundVars, callVars, dl, fsVars>>

\* second await of fs.move: remove(dest)
DlMoveRemove(p) ==
  /\ pc[p] = "dl_move_rm"
  /\ \/ /\ Goto(p, InnerCatch)
        /\ UNCHANGED fsVars
     \/ /\ FsRemove(LocalOf(p))
        /\ Goto(p, "dl_move_mv")
  /\ UNCHANGED <<envVars, loopVars, boundVars, callVars, dl>>

\* third await of fs.move: rename(src, dest); then the call returns success
DlMoveRename(p) ==
  /\ pc[p] = "dl_move_mv"
  /\ \/ \* rename fails (the source is gone, or an I/O error)
        /\ Goto(p, InnerCatch)
        /\ UNCHANGED <<fsVars, dl>>
     \/ /\ Exists(TempOf(p))
        /\ FsRename(TempOf(p), LocalOf(p))
        /\ dl' = [dl EXCEPT ![p].ok = TRUE]
        /\ Goto(p, "dl_ret")
  /\ UNCHANGED <<envVars, loopVars, boundVars, callVars>>

\* a variant of DlReturn in which the caller takes every result for a success
DlReturnSuccess(p) ==
  /\ pc[p] = "dl_ret"
  /\ Return(p, "installed")
  /\ UNCHANGED <<envVars, loopVars, boundVars, fsVars>>

\* the caller resumes with the result of downloadFile
DlReturn(p) ==
  /\ pc[p] = "dl_ret"
  /\ Return(p, IF dl[p].ok THEN "installed" ELSE "failed")
  /\ UNCHANGED <<envVars, loopVars, boundVars, fsVars>>

(***************************************************************************)
(* FileValidator.cleanupTempFile, as called at three places: after a       *)
(* failed verification (dl_clean1), in the inner catch of downloadFile     *)
(* (dl_clean2), and by handleModelDeletion on the final path (del)         *)
(***************************************************************************)
CleanLabels == {"dl_clean1", "dl_clean2", "del"}

RmLabel(label) == CASE label = "dl_clean1" -> "dl_clean1_rm"
                    [] label = "dl_clean2" -> "dl_clean2_rm"
                    [] label = "del" -> "del_rm"

CleanPath(p, label) == IF label = "del" THEN LocalOf(p) ELSE TempOf(p)

\* a variant of CleanDone in which a failed removal fails the deletion path
CleanDoneRethrow(p, label, failed) ==
  CASE label = "dl_clean1" ->
         /\ Goto(p, InnerCatch)
         /\ dl' = [dl EXCEPT ![p].rmfail = failed]
         /\ UNCHANGED callVars
    [] label = "dl_clean2" ->
         /\ Goto(p, "dl_ret")
         /\ dl' = [dl EXCEPT ![p].rmfail = failed]
         /\ UNCHANGED callVars
    [] label = "del" ->
         IF failed THEN Raise("delete", NoLast) ELSE RecordDone(NoLast)

\* cleanupTempFile returned (it never throws)
CleanDone(p, label, failed) ==
  CASE label = "dl_clean1" ->
         \* throw new Error('Downloaded file failed integrity check')
         /\ Goto(p, InnerCatch)
         /\ dl' = [dl EXCEPT ![p].rmfail = failed]
         /\ UNCHANGED callVars
    [] label = "dl_clean2" ->
         \* throw error: the outer catch returns success = false
         /\ Goto(p, "dl_ret")
         /\ dl' = [dl EXCEPT ![p].rmfail = failed]
         /\ UNCHANGED callVars
    [] label = "del" ->
         \* handleModelDeletion returns
         RecordDone(NoLast)

\* await fs.pathExists(filePath)
CleanCheck(p) ==
  /\ pc[p] \in CleanLabels
  /\ IF Exists(CleanPath(p, pc[p]))
       THEN /\ Goto(p, RmLabel(pc[p]))
            /\ UNCHANGED <<dl, callVars>>
       ELSE CleanDone(p, pc[p], FALSE)
  /\ UNCHANGED <<envVars, loopVars, boundVars, fsVars>>

\* await fs.remove(filePath); a failure is logged and swallowed
CleanRemove(p) ==
  \E label \in CleanLabels :
    /\ pc[p] = RmLabel(label)
    /\ \/ /\ FsRemove(CleanPath(p, label))
          /\ CleanDone(p, label, FALSE)
       \/ /\ UNCHANGED fsVars
          /\ CleanDone(p, label, TRUE)
    /\ UNCHANGED <<envVars, loopVars, boundVars>>

Download(p) ==
  \/ SuExists(p) \/ SuHead(p) \/ SuStat(p)
  \/ DlHead(p) \/ DlSpace(p) \/ DlGet(p) \/ DlOpen(p)
  \/ DlWrite(p) \/ DlStreamError(p) \/ DlFinish(p) \/ DlPipeline(p)
  \/ DlVerify(p) \/ DlMove(p) \/ DlMoveRemove(p) \/ DlMoveRename(p)
  \/ CleanCheck(p) \/ CleanRemove(p) \/ DlReturn(p)

(***************************************************************************)
(* ModelSyncService: the event loop                                        *)
(***************************************************************************)
subVars == <<envVars, fsVars, boundVars, summary>>

\* start(): isRunning = true, then the while loop
Start ==
  /\ pc["loop"] = "init"
  /\ isRunning' = TRUE
  /\ Goto("loop", "while")
  /\ UNCHANGED <<subVars, queue, batch, message, health, notes, receives,
                 recIdx, hist, dl>>

\* a variant of While that does not read the flag
WhileForever ==
  /\ pc["loop"] = "while"
  /\ Goto("loop", "receive")
  /\ UNCHANGED <<subVars, loopVars, recIdx, hist, dl>>

\* while (this.isRunning): processMessages() issues ReceiveMessage
While ==
  /\ pc["loop"] = "while"
  /\ IF isRunning
       THEN Goto("loop", "receive")
       ELSE Goto("loop", "stopped")
  /\ UNCHANGED <<subVars, loopVars, recIdx, hist, dl>>

\* the sequences of distinct elements of S, up to 10 (MaxNumberOfMessages)
RECURSIVE Orders(_)
Orders(S) ==
  {<< >>} \cup UNION {{<<m>> \o t : t \in Orders(S \ {m})} : m \in S}

MaxNumberOfMessages == 10

\* await this.sqsClient.send(ReceiveMessageCommand)
Receive ==
  /\ pc["loop"] = "receive"
  /\ \/ \* the call fails: caught and logged inside processMessages, which
        \* returns normally
        /\ batch' = << >>
        /\ hist' = [hist EXCEPT !.cause = "receive"]
        /\ Goto("loop", "sleep")
        /\ UNCHANGED receives
     \/ \* the call returns no message
        /\ batch' = << >>
        /\ hist' = [hist EXCEPT !.cause = "none"]
        /\ Goto("loop", "sleep")
        /\ UNCHANGED receives
     \/ \E b \in Orders({m \in MsgIds : queue[m].st = "queued"}) :
          /\ b # << >>
          /\ Len(b) <= MaxNumberOfMessages
          /\ receives < MaxReceives
          /\ receives' = receives + 1
          /\ batch' = b
          /\ hist' = [hist EXCEPT !.got = b, !.cause = "none"]
          /\ Goto("loop", "next_msg")
  /\ UNCHANGED <<subVars, queue, isRunning, message, health, notes, recIdx, dl>>

\* for (const message of result.Messages): handleMessage(message) up to the
\* first record
NextMsg ==
  /\ pc["loop"] = "next_msg"
  /\ IF batch = << >>
       THEN \* the for loop ends: processMessages returns
            /\ Goto("loop", "sleep")
            /\ message' = NoMsg
            /\ hist' = [NoHist EXCEPT !.last = hist.last, !.cut = hist.cut]
            /\ notes' = << >>
            /\ UNCHANGED <<batch, recIdx, dl>>
       ELSE LET m == Head(batch)
                h == [NoHist EXCEPT !.last = hist.last, !.got = hist.got,
                                    !.cut = hist.cut]
            IN  /\ batch' = Tail(batch)
                /\ message' = m
                /\ notes' = << >>
                /\ IF ~queue[m].body.json
                     THEN \* JSON.parse throws
                          /\ Goto("loop", RaisedNext)
                          /\ hist' = [h EXCEPT !.mlog = <<"raised">>, !.cause = "parse"]
                          /\ UNCHANGED <<recIdx, dl>>
                     ELSE IF ~queue[m].body.hasRecords
                       THEN \* Invalid S3 event format, skipping
                            /\ Goto("loop", "delete_msg")
                            /\ hist' = [h EXCEPT !.mlog = <<"handled">>]
                            /\ UNCHANGED <<recIdx, dl>>
                       ELSE /\ Goto("loop", "record")
                            /\ recIdx' = 1
                            /\ hist' = h
                            /\ UNCHANGED dl
  /\ UNCHANGED <<subVars, queue, isRunning, health, receives>>

\* the records the bodies are made of, with what handleS3Event does for each
\* and the key it decodes (computed once for every record)
EventRecords == {RCreated, RRemoved, RNoS3, RBadEnc, ROneSeg, RNonModel, ROther}
handleS3EventOf == [r \in EventRecords |-> handleS3Event(r)]
decodedKeyOf == [r \in EventRecords |-> DecodeURIComponent(r.key).val]

\* await this.handleS3Event(record) up to its first await, or the end of
\* handleMessage when no record is left
Record ==
  /\ pc["loop"] = "record"
  /\ LET records == queue[message].body.Records IN
     IF recIdx > Len(records)
       THEN /\ Goto("loop", "delete_msg")
            /\ hist' = [hist EXCEPT !.mlog = Append(@, "handled")]
            /\ recIdx' = 0
            /\ UNCHANGED dl
       ELSE LET what == handleS3EventOf[records[recIdx]]
                key == decodedKeyOf[records[recIdx]]
            IN  CASE what = "throw" -> Raise("malformed", hist.last)
                  [] what \in {"skip", "ignore"} -> RecordDone(hist.last)
                  [] what = "update" ->
                       /\ dl' = [dl EXCEPT !["loop"] = NewDl(key)]
                       /\ Goto("loop", "su_exists")
                       /\ UNCHANGED <<recIdx, hist>>
                  [] what = "delete" ->
                       /\ dl' = [dl EXCEPT !["loop"] = NewDl(key)]
                       /\ Goto("loop", "del")
                       /\ UNCHANGED <<recIdx, hist>>
  /\ UNCHANGED <<subVars, loopVars>>

\* a variant of Notify that reports no size
NotifyNoSize ==
  /\ pc["loop"] = "notify"
  /\ \/ /\ notes' = Append(notes, [path |-> dl["loop"].key, size |-> 0])
        /\ RecordDone(hist.last)
     \/ /\ UNCHANGED notes
        /\ Raise("notify", [hist.last EXCEPT !.unsent = TRUE])
  /\ UNCHANGED <<subVars, queue, isRunning, batch, message, health, receives>>

\* a variant of Notify in which a failed send is not rethrown
NotifySwallow ==
  /\ pc["loop"] = "notify"
  /\ \/ notes' = Append(notes, [path |-> dl["loop"].key, size |-> dl["loop"].n])
     \/ UNCHANGED notes
  /\ RecordDone(hist.last)
  /\ UNCHANGED <<subVars, queue, isRunning, batch, message, health, receives>>

\* await this.notifyApplications(...): SendMessage to the notification queue
Notify ==
  /\ pc["loop"] = "notify"
  /\ \/ /\ notes' = Append(notes, [path |-> dl["loop"].key, size |-> dl["loop"].n])
        /\ RecordDone(hist.last)
     \/ \* the send fails: handleModelUpdate rethrows
        /\ UNCHANGED notes
        /\ Raise("notify", [hist.last EXCEPT !.unsent = TRUE])
  /\ UNCHANGED <<subVars, queue, isRunning, batch, message, health, receives>>

\* await this.deleteMessage(message): a failure is logged, not rethrown
\* a variant of DeleteMsg whose catch raises the failure of the delete call
DeleteMsgRethrow ==
  /\ pc["loop"] = "delete_msg"
  /\ \/ /\ queue' = [queue EXCEPT ![message].st = "deleted"]
        /\ hist' = [hist EXCEPT !.mlog = Append(@, "delete")]
        /\ Goto("loop", "update_health")
        /\ UNCHANGED <<recIdx, dl, summary>>
     \/ /\ UNCHANGED queue
        /\ Raise("delete", hist.last)
  /\ UNCHANGED <<envVars, fsVars, boundVars, isRunning, batch, message,
                 health, notes, receives>>

DeleteMsg ==
  /\ pc["loop"] = "delete_msg"
  /\ \/ queue' = [queue EXCEPT ![message].st = "deleted"]
     \/ UNCHANGED queue
  /\ hist' = [hist EXCEPT !.mlog = Append(@, "delete")]
  /\ Goto("loop", "update_health")
  /\ UNCHANGED <<subVars, isRunning, batch, message, health, notes, receives,
                 recIdx, dl>>

\* this.healthService.updateLastProcessed()
UpdateHealth ==
  /\ pc["loop"] = "update_health"
  /\ health' = [health EXCEPT !.last = TRUE, !.healthy = TRUE, !.idle = 0]
  /\ hist' = [hist EXCEPT !.mlog = Append(@, "tracked")]
  /\ Goto("loop", "next_msg")
  /\ UNCHANGED <<subVars, queue, isRunning, batch, message, notes, receives,
                 recIdx, dl>>

\* the pauses of start(): sleep(5000) after processMessages returned,
\* sleep(10000) in the catch block around it
NormalPause == 5000
ErrorPause == 10000

\* the length of the pause at a position of the loop ("backoff": the sleep of
\* the catch block of start())
PauseAt(label) ==
  CASE label = "sleep" -> NormalPause
    [] label = "backoff" -> ErrorPause
    [] OTHER -> 0

\* await this.sleep(5000)
Sleep ==
  /\ pc["loop"] = "sleep"
  /\ Goto("loop", "while")
  /\ UNCHANGED <<subVars, loopVars, recIdx, hist, dl>>

Loop ==
  \/ Start \/ While \/ Receive \/ NextMsg \/ Record \/ Notify \/ DeleteMsg
  \/ UpdateHealth \/ Sleep \/ Download("loop")

(***************************************************************************)
(* ModelSyncService.triggerFullSync (POST /sync/full)                      *)
(***************************************************************************)
\* todo: the keys of allModels not yet iterated; total, synced, errors,
\* success: the members of the summary (an error message is modelled by the
\* key it names, the message of a failed listing by the empty key); returned:
\* the call has returned.  History: bucket - the keys the bucket held when
\* it was listed; outs - for every key iterated, what happened to it; e0 -
\* the value of epoch when the call began; again - the call before this one
\* returned success and the bucket has not changed since that call listed it
NoSummary == [todo |-> << >>, total |-> 0, synced |-> 0, errors |-> << >>,
              returned |-> FALSE, success |-> FALSE, bucket |-> {},
              outs |-> << >>, e0 |-> 0, again |-> FALSE]

\* the keys in listing order (ListObjectsV2 lists in byte order of the keys)
KeyList == <<K1, KLog, K2>>

\* the keys the bucket holds
Held == {k \in DOMAIN remote : remote[k] # NoObj}

\* a variant of listAllModels that lists every key the bucket holds
listAllModelsUnfiltered == SelectSeq(KeyList, LAMBDA k : k \in Held)

\* S3Service.listAllModels: the qualifying keys the bucket holds
listAllModels == SelectSeq(KeyList, LAMBDA k : k \in Held /\ isModelFile(k))

(***************************************************************************)
(* S3Service.listAllModels over a bucket listed in several pages           *)
(***************************************************************************)
\* two more keys: "e/v/n.tmp", no model file, and "e/v/o.pth"
KTmp == <<"e", "/", "v", "/", "n", ".", "t", "m", "p">>
K3 == <<"e", "/", "v", "/", "o", ".", "p", "t", "h">>

\* the keys of a bucket that takes several pages to list, in listing order
ListKeyList == <<K1, KLog, K2, KTmp, K3>>
ListKeys == {ListKeyList[i] : i \in DOMAIN ListKeyList}

\* MaxKeys of the ListObjectsV2Command (1000), scaled to pages of two keys
MaxKeys == 2

\* what the bucket holds, in listing order
HeldList == SelectSeq(ListKeyList, LAMBDA k : k \in Held)

\* st: "idle", "page" (a ListObjectsV2 call is awaited), "returned", "raised";
\* token: continuationToken, as the number of keys the pages before it
\* listed (0: undefined); models: the local array; out: what the caller
\* received, << >> or the one list returned.  History: pages - the pages
\* received
NoListing == [st |-> "idle", token |-> 0, models |-> << >>, out |-> << >>,
              pages |-> 0]

\* listAllModels is called
ListStart ==
  /\ listing.st = "idle"
  /\ listing' = [listing EXCEPT !.st = "page"]
  /\ UNCHANGED <<envVars, fsVars, loopVars, callVars, syncs, crashes, apiHealth,
                 pc, dl>>

\* the page of n keys that follows the token, and whether the store truncates
\* the listing after it
PageAfter(token, n) == SubSeq(HeldList, token + 1, token + n)
PageLens(token) ==
  IF token = Len(HeldList) THEN {0}
  ELSE 1 .. (IF Len(HeldList) - token < MaxKeys THEN Len(HeldList) - token
             ELSE MaxKeys)
Truncations(token, n) ==
  IF token + n < Len(HeldList) THEN {TRUE}
  ELSE IF n > 0 THEN {TRUE, FALSE} ELSE {FALSE}

\* a variant of ListPage that returns after the first page
ListPageOnce ==
  /\ listing.st = "page"
  /\ \/ listing' = [listing EXCEPT !.st = "raised", !.models = << >>]
     \/ \E n \in PageLens(listing.token) :
          LET models == listing.models
                          \o SelectSeq(PageAfter(listing.token, n), isModelFile)
          IN  listing' = [listing EXCEPT
                !.models = models, !.pages = @ + 1, !.token = 0,
                !.st = "returned", !.out = <<models>>]
  /\ UNCHANGED <<envVars, fsVars, loopVars, callVars, syncs, crashes, apiHealth,
                 pc, dl>>

\* one iteration of the do ... while (continuationToken): the send, the
\* filter over response.Contents, the test of NextContinuationToken
ListPage ==
  /\ listing.st = "page"
  /\ \/ \* the send fails: the catch logs and rethrows
        listing' = [listing EXCEPT !.st = "raised", !.models = << >>]
     \/ \E n \in PageLens(listing.token) :
        \E more \in Truncations(listing.token, n) :
          LET models == listing.models
                          \o SelectSeq(PageAfter(listing.token, n), isModelFile)
          IN  listing' = [listing EXCEPT
                !.models = models,
                !.pages = @ + 1,
                !.token = IF more THEN listing.token + n ELSE 0,
                !.st = IF more THEN "page" ELSE "returned",
                !.out = IF more THEN @ ELSE <<models>>]
  /\ UNCHANGED <<envVars, fsVars, loopVars, callVars, syncs, crashes, apiHealth,
                 pc, dl>>

\* the API calls triggerFullSync
SyncStart ==
  /\ pc["sync"] = "idle"
  /\ syncs < MaxSyncs
  /\ syncs' = syncs + 1
  /\ summary' = [NoSummary EXCEPT
       !.e0 = epoch,
       !.again = /\ summary.returned /\ summary.success
                 /\ summary.e0 = epoch /\ summary.bucket = Held]
  /\ Goto("sync", "list")
  /\ UNCHANGED <<envVars, fsVars, loopVars, crashes, listing, apiHealth, recIdx,
                 hist, dl>>

\* await this.s3Service.listAllModels()
SyncList ==
  /\ pc["sync"] = "list"
  /\ \/ \* the listing fails: the outer catch returns
        /\ summary' = [summary EXCEPT !.returned = TRUE, !.errors = << << >> >>]
        /\ Goto("sync", "idle")
     \/ IF listAllModels = << >>
          THEN /\ summary' = [summary EXCEPT !.returned = TRUE, !.success = TRUE,
                                             !.bucket = Held]
               /\ Goto("sync", "idle")
          ELSE /\ summary' = [summary EXCEPT !.todo = listAllModels,
                                             !.total = Len(listAllModels),
                                             !.bucket = Held]
               /\ Goto("sync", "next_key")
  /\ UNCHANGED <<envVars, fsVars, loopVars, boundVars, recIdx, hist, dl>>

\* for (const modelKey of allModels): up to the first await of shouldUpdateFile
SyncNext ==
  /\ pc["sync"] = "next_key"
  /\ IF summary.todo = << >>
       THEN /\ summary' = [summary EXCEPT !.returned = TRUE,
                                          !.success = (summary.errors = << >>)]
            /\ Goto("sync", "idle")
            /\ UNCHANGED dl
       ELSE /\ dl' = [dl EXCEPT !["sync"] = NewDl(Head(summary.todo))]
            /\ Goto("sync", "su_exists")
            /\ UNCHANGED summary
  /\ UNCHANGED <<envVars, fsVars, loopVars, boundVars, recIdx, hist>>

Sync == SyncStart \/ SyncList \/ SyncNext \/ Download("sync")

(***************************************************************************)
(* The environment: the remote bucket                                      *)
(***************************************************************************)
\* a new version of the object at key k, of size s, is put
RemotePut(k, s) ==
  /\ epoch < MaxVer
  /\ epoch' = epoch + 1
  /\ remote' = [remote EXCEPT ![k] = Obj(epoch + 1, s)]
  /\ zeroPut' = (zeroPut \/ s = 0)
  /\ UNCHANGED <<fsVars, loopVars, boundVars, callVars, pc, dl>>

\* the object at key k is deleted
RemoteDelete(k) ==
  /\ remote[k] # NoObj
  /\ remote' = [remote EXCEPT ![k] = NoObj]
  /\ UNCHANGED <<zeroPut, epoch, fsVars, loopVars, boundVars, callVars, pc, dl>>

\* the sizes of the objects the environment uploads: empty or MaxSize chunks
Sizes == {0, MaxSize}

Env == \E k \in Keys : RemoteDelete(k) \/ \E s \in Sizes : RemotePut(k, s)

(***************************************************************************)
(* Crash of the process and restart by the supervisor (index.ts: main)     *)
(***************************************************************************)
\* last: lastProcessedTime is set; healthy: isHealthy; idle: the time since
\* lastProcessedTime (since the start while it is null), in ticks, no further
\* counted beyond MaxIdle + 1.  History: report - the status the latest
\* getHealth or getMetrics call returned, flip alternating with every call
NoReport == [by |-> "none", status |-> "none", flip |-> FALSE]
NoHealth == [last |-> FALSE, healthy |-> TRUE, idle |-> 0, report |-> NoReport]

Crash ==
  /\ crashes < MaxCrashes
  /\ pc["loop"] # "init"
  /\ crashes' = crashes + 1
  /\ pc' = [p \in Procs |-> IF p = "loop" THEN "init" ELSE "idle"]
  /\ dl' = [p \in Procs |-> NoDl]
  /\ fd' = [p \in Procs |-> NoFd]
  /\ isRunning' = FALSE
  /\ batch' = << >>
  /\ recIdx' = 0
  /\ health' = NoHealth
  /\ apiHealth' = NoHealth
  /\ summary' = NoSummary
  /\ hist' = NoHist
  /\ message' = NoMsg
  /\ notes' = << >>
  /\ UNCHANGED <<envVars, files, queue, receives, syncs, listing>>

(***************************************************************************)
(* HealthCheckService, as called by the HTTP surface                       *)
(***************************************************************************)
\* maxIdleTime (10 minutes), in ticks of five minutes
MaxIdle == 2

\* five minutes pass
Tick ==
  /\ health.idle <= MaxIdle
  /\ health' = [health EXCEPT !.idle = @ + 1]
  /\ UNCHANGED <<envVars, fsVars, boundVars, callVars, pc, dl, queue,
                 isRunning, batch, message, notes, receives>>

StatusOf(isHealthy) == IF isHealthy THEN "healthy" ELSE "unhealthy"

\* this.lastProcessedTime && Date.now() - lastProcessedTime > maxIdleTime
IdleTooLong == health.last /\ health.idle > MaxIdle

\* a variant of GetHealth that reports an idle tracker without storing the flag
GetHealthPure ==
  /\ health' = [health EXCEPT
       !.report = [by |-> "health", flip |-> ~health.report.flip,
                   status |-> IF IdleTooLong THEN "unhealthy"
                              ELSE StatusOf(health.healthy)]]
  /\ UNCHANGED <<envVars, fsVars, boundVars, callVars, pc, dl, queue,
                 isRunning, batch, message, notes, receives>>

\* HealthCheckService.getHealth()
GetHealth ==
  /\ health' = [health EXCEPT
       !.healthy = IF IdleTooLong THEN FALSE ELSE @,
       !.report = [by |-> "health", flip |-> ~health.report.flip,
                   status |-> IF IdleTooLong THEN "unhealthy"
                              ELSE StatusOf(health.healthy)]]
  /\ UNCHANGED <<envVars, fsVars, boundVars, callVars, pc, dl, queue,
                 isRunning, batch, message, notes, receives>>

\* HealthCheckService.getMetrics()
GetMetrics ==
  /\ health' = [health EXCEPT
       !.report = [by |-> "metrics", flip |-> ~health.report.flip,
                   status |-> StatusOf(health.healthy)]]
  /\ UNCHANGED <<envVars, fsVars, boundVars, callVars, pc, dl, queue,
                 isRunning, batch, message, notes, receives>>

(***************************************************************************)
(* main: the tracker of the HTTP surface                                   *)
(***************************************************************************)
\* HealthCheckService.getHealth() on the tracker t, called by a route
getHealth(t, route) ==
  LET idleTooLong == t.last /\ t.idle > MaxIdle IN
  [t EXCEPT
     !.healthy = IF idleTooLong THEN FALSE ELSE @,
     !.report = [by |-> route, flip |-> ~t.report.flip,
                 status |-> IF idleTooLong THEN "unhealthy"
                            ELSE StatusOf(t.healthy)]]

\* GET /health and GET /ready: this.healthService.getHealth(), on the
\* instance main constructed for ApiService
HttpGet ==
  /\ \E route \in {"health", "ready"} : apiHealth' = getHealth(apiHealth, route)
  /\ UNCHANGED <<envVars, fsVars, loopVars, callVars, syncs, crashes, listing,
                 pc, dl>>

\* five minutes pass, for both trackers
Elapse ==
  /\ health.idle <= MaxIdle
  /\ health' = [health EXCEPT !.idle = @ + 1]
  /\ apiHealth' = [apiHealth EXCEPT !.idle = IF @ <= MaxIdle THEN @ + 1 ELSE @]
  /\ UNCHANGED <<envVars, fsVars, callVars, syncs, crashes, listing, pc, dl,
                 queue, isRunning, batch, message, notes, receives>>

(***************************************************************************)
(* index.ts: the SIGTERM / SIGINT handlers                                 *)
(***************************************************************************)
\* await syncService.stop() sets isRunning to false and resolves at once;
\* process.exit(0) then ends the process, whatever the loop is awaiting
\* ModelSyncService.stop(), called while the loop runs
Stop ==
  /\ isRunning
  /\ isRunning' = FALSE
  /\ hist' = [hist EXCEPT !.cut = pc["loop"]]
  /\ UNCHANGED <<envVars, fsVars, boundVars, pc, dl, queue, batch, message,
                 health, notes, receives, recIdx, summary>>

Sigterm ==
  /\ pc["loop"] \notin {"init", "exited"}
  /\ isRunning' = FALSE
  /\ pc' = [p \in Procs |-> "exited"]
  /\ fd' = [p \in Procs |-> NoFd]
  /\ hist' = [hist EXCEPT !.cut = pc["loop"]]
  /\ UNCHANGED <<envVars, files, queue, batch, message, health, notes,
                 receives, boundVars, recIdx, summary, dl>>

(***************************************************************************)
(* Specifications                                                          *)
(***************************************************************************)
\* the state after construction, one message with a body of the set bodies
\* waiting in the queue
InitWith(bodies) ==
  /\ remote = [k \in Keys |-> NoObj]
  /\ zeroPut = FALSE
  /\ epoch = 0
  /\ \E b \in bodies :
       queue = [m \in MsgIds |-> [body |-> b, st |-> IF m = "m1" THEN "queued" ELSE "gone"]]
  /\ files = [path \in Paths |-> Absent]
  /\ fd = [p \in Procs |-> NoFd]
  /\ pc = [p \in Procs |-> IF p = "loop" THEN "init" ELSE "idle"]
  /\ dl = [p \in Procs |-> NoDl]
  /\ isRunning = FALSE
  /\ batch = << >>
  /\ message = NoMsg
  /\ recIdx = 0
  /\ health = NoHealth
  /\ notes = << >>
  /\ summary = NoSummary
  /\ receives = 0
  /\ syncs = 0
  /\ crashes = 0
  /\ listing = NoListing
  /\ apiHealth = NoHealth
  /\ hist = NoHist

Init == InitWith(Bodies)

\* one instance running only the event loop
Next == Loop \/ Env

Spec == Init /\ [][Next]_vars

\* a message that stayed queued is delivered again, however often it was
\* delivered before (the deliveries beyond MaxReceives are not counted)
Redeliver ==
  /\ pc["loop"] = "receive"
  /\ receives = MaxReceives
  /\ \E b \in Orders({m \in MsgIds : queue[m].st = "queued"}) :
       /\ b # << >>
       /\ Len(b) <= MaxNumberOfMessages
       /\ batch' = b
       /\ hist' = [hist EXCEPT !.got = b, !.cause = "none"]
       /\ Goto("loop", "next_msg")
  /\ UNCHANGED <<subVars, queue, isRunning, message, health, notes, receives,
                 recIdx, dl>>

\* messages of update events for K1
RetryBodies == {Body(<<RCreated>>), Body(<<RCreated, RCreated>>)}

\* one such message waits in the queue; the bucket holds the object at K1
InitRetry ==
  /\ remote = [k \in Keys |-> Obj(0, MaxSize)]
  /\ zeroPut = FALSE
  /\ epoch = 0
  /\ \E b \in RetryBodies :
       queue = [m \in MsgIds |->
                  [body |-> b, st |-> IF m = "m1" THEN "queued" ELSE "gone"]]
  /\ files = [path \in Paths |-> Absent]
  /\ fd = [p \in Procs |-> NoFd]
  /\ pc = [p \in Procs |-> IF p = "loop" THEN "init" ELSE "idle"]
  /\ dl = [p \in Procs |-> NoDl]
  /\ isRunning = FALSE
  /\ batch = << >>
  /\ message = NoMsg
  /\ recIdx = 0
  /\ health = NoHealth
  /\ notes = << >>
  /\ summary = NoSummary
  /\ receives = 0
  /\ syncs = 0
  /\ crashes = 0
  /\ listing = NoListing
  /\ apiHealth = NoHealth
  /\ hist = NoHist

\* the event loop with redelivery without end, the bucket unchanged
NextRetry == Loop \/ Redeliver

SpecRetry == InitRetry /\ [][NextRetry]_vars

\* bodies that are not a Records array, and one that is
MalformedBodies == {NotJson, NoRecords, Body(<<RCreated>>)}

\* two messages wait in the queue; the bucket holds the object at K1
InitMalformed ==
  /\ remote = [k \in Keys |-> Obj(0, MaxSize)]
  /\ zeroPut = FALSE
  /\ epoch = 0
  /\ \E b1 \in MalformedBodies, b2 \in MalformedBodies :
       queue = [m \in MsgIds |->
                  [body |-> IF m = "m1" THEN b1 ELSE b2, st |-> "queued"]]
  /\ files = [path \in Paths |-> Absent]
  /\ fd = [p \in Procs |-> NoFd]
  /\ pc = [p \in Procs |-> IF p = "loop" THEN "init" ELSE "idle"]
  /\ dl = [p \in Procs |-> NoDl]
  /\ isRunning = FALSE
  /\ batch = << >>
  /\ message = NoMsg
  /\ recIdx = 0
  /\ health = NoHealth
  /\ notes = << >>
  /\ summary = NoSummary
  /\ receives = 0
  /\ syncs = 0
  /\ crashes = 0
  /\ listing = NoListing
  /\ apiHealth = NoHealth
  /\ hist = NoHist

\* the event loop with redelivery without end over these messages
SpecMalformed == InitMalformed /\ [][NextRetry]_vars

\* a step in which a call to the queue, the bucket or the filesystem fails, or
\* a receive returns nothing although a message is queued
FailedCall ==
  \/ pc["loop"] = "receive" /\ batch' = << >>
       /\ \E m \in MsgIds : queue[m].st = "queued"
  \/ pc["loop"] = "su_head" /\ dl'["loop"].suErr
  \/ pc["loop"] \in {"dl_head", "dl_space", "dl_get"} /\ pc'["loop"] = "dl_ret"
  \/ pc["loop"] \in {"dl_open", "dl_stream", "dl_move_rm", "dl_move_mv"}
       /\ pc'["loop"] = InnerCatch
  \/ pc["loop"] = "notify" /\ notes' = notes
  \/ pc["loop"] = "delete_msg" /\ queue' = queue

\* every await of the loop settles
SpecRetryLive == SpecRetry /\ WF_vars(NextRetry)

\* bodies with events for keys that are no model file or have one path
\* segment, alone and next to an update event
DropBodies ==
  { Body(<<RNonModel>>), Body(<<ROneSeg>>), Body(<<RNonModel, ROneSeg>>),
    Body(<<ROneSeg, RNonModel>>), Body(<<RNonModel, RCreated>>),
    Body(<<RCreated, ROneSeg>>) }

InitDrop == InitWith(DropBodies)

SpecDrop == InitDrop /\ [][Next]_vars

\* the first call of triggerFullSync
SyncStartFirst == syncs = 0 /\ SyncStart

SyncOnce == SyncStartFirst \/ SyncList \/ SyncNext \/ Download("sync")

\* the event loop and one manual full sync in one instance
NextSync == Loop \/ Env \/ SyncOnce

\* the bodies of well-formed update and deletion events
EventBodies == {Body(<<RCreated>>), Body(<<RCreated, RRemoved>>)}

InitSync == InitWith(EventBodies)

SpecSync == InitSync /\ [][NextSync]_vars

\* the object at K1 is deleted and the bucket sends the ObjectRemoved event
\* of the deletion to the queue
RemoveAndSend ==
  /\ remote[K1] # NoObj
  /\ remote' = [remote EXCEPT ![K1] = NoObj]
  /\ queue' = [queue EXCEPT !["m2"].st = "queued"]
  /\ UNCHANGED <<zeroPut, epoch, fsVars, boundVars, callVars, pc, dl,
                 isRunning, batch, message, health, notes, receives>>

\* the bucket holds the object at K1, whose ObjectCreated event waits in the
\* queue; the event of its deletion has not been sent yet
InitRemoved ==
  /\ remote = [k \in Keys |-> Obj(0, MaxSize)]
  /\ zeroPut = FALSE
  /\ epoch = 0
  /\ queue = [m \in MsgIds |->
                IF m = "m1" THEN [body |-> Body(<<RCreated>>), st |-> "queued"]
                            ELSE [body |-> Body(<<RRemoved>>), st |-> "gone"]]
  /\ files = [path \in Paths |-> Absent]
  /\ fd = [p \in Procs |-> NoFd]
  /\ pc = [p \in Procs |-> IF p = "loop" THEN "init" ELSE "idle"]
  /\ dl = [p \in Procs |-> NoDl]
  /\ isRunning = FALSE
  /\ batch = << >>
  /\ message = NoMsg
  /\ recIdx = 0
  /\ health = NoHealth
  /\ notes = << >>
  /\ summary = NoSummary
  /\ receives = 0
  /\ syncs = 0
  /\ crashes = 0
  /\ listing = NoListing
  /\ apiHealth = NoHealth
  /\ hist = NoHist

\* the event loop and one manual full sync while the object is deleted
NextRemoved == Loop \/ SyncOnce \/ RemoveAndSend

SpecRemoved == InitRemoved /\ [][NextRemoved]_vars

\* a bucket that holds three objects (version 0) when the service starts,
\* the one at K1 of any size; the queue is empty and stays empty
InitSweep ==
  /\ \E z \in Sizes :
       remote = [k \in BucketKeys |->
                   IF k = K1 THEN Obj(0, z) ELSE Obj(0, MaxSize)]
  /\ zeroPut = (remote[K1].size = 0)
  /\ epoch = 0
  /\ queue = [m \in MsgIds |-> [body |-> NoRecords, st |-> "gone"]]
  /\ files = [path \in BucketPaths |-> Absent]
  /\ fd = [p \in Procs |-> NoFd]
  /\ pc = [p \in Procs |-> IF p = "loop" THEN "init" ELSE "idle"]
  /\ dl = [p \in Procs |-> NoDl]
  /\ isRunning = FALSE
  /\ batch = << >>
  /\ message = NoMsg
  /\ recIdx = 0
  /\ health = NoHealth
  /\ notes = << >>
  /\ summary = NoSummary
  /\ receives = 0
  /\ syncs = 0
  /\ crashes = 0
  /\ listing = NoListing
  /\ apiHealth = NoHealth
  /\ hist = NoHist

\* the model objects are deleted, the object at K1 is replaced
EnvSweep ==
  \/ \E k \in {K1, K2} : RemoteDelete(k)
  \/ \E z \in Sizes : RemotePut(K1, z)

\* full syncs called one after the other through the API, the event loop idle
NextSweep == Sync \/ EnvSweep

SpecSweep == InitSweep /\ [][NextSweep]_vars

\* a bucket that holds any of the keys of ListKeys, listed by one call
InitList ==
  /\ \E held \in SUBSET ListKeys :
       remote = [k \in ListKeys |-> IF k \in held THEN Obj(0, MaxSize) ELSE NoObj]
  /\ zeroPut = FALSE
  /\ epoch = 0
  /\ queue = [m \in MsgIds |-> [body |-> NoRecords, st |-> "gone"]]
  /\ files = [path \in Paths |-> Absent]
  /\ fd = [p \in Procs |-> NoFd]
  /\ pc = [p \in Procs |-> IF p = "loop" THEN "init" ELSE "idle"]
  /\ dl = [p \in Procs |-> NoDl]
  /\ isRunning = FALSE
  /\ batch = << >>
  /\ message = NoMsg
  /\ recIdx = 0
  /\ health = NoHealth
  /\ notes = << >>
  /\ summary = NoSummary
  /\ receives = 0
  /\ syncs = 0
  /\ crashes = 0
  /\ listing = NoListing
  /\ apiHealth = NoHealth
  /\ hist = NoHist

NextList == ListStart \/ ListPage

SpecList == InitList /\ [][NextList]_vars

\* every awaited ListObjectsV2 call resolves or rejects
SpecListLive == SpecList /\ WF_vars(ListPage)

\* the event loop of an instance that may crash and is restarted
NextCrash == Loop \/ Env \/ Crash

SpecCrash == Init /\ [][NextCrash]_vars

\* the event loop of an instance that receives a stop signal
NextStop == Loop \/ Env \/ Sigterm

SpecStop == Init /\ [][NextStop]_vars


\* one message with update events waits in the queue; the bucket holds the
\* object at K1
InitHealth ==
  /\ remote = [k \in Keys |-> Obj(0, MaxSize)]
  /\ zeroPut = FALSE
  /\ epoch = 0
  /\ \E b \in EventBodies :
       queue = [m \in MsgIds |->
                  [body |-> b, st |-> IF m = "m1" THEN "queued" ELSE "gone"]]
  /\ files = [path \in Paths |-> Absent]
  /\ fd = [p \in Procs |-> NoFd]
  /\ pc = [p \in Procs |-> IF p = "loop" THEN "init" ELSE "idle"]
  /\ dl = [p \in Procs |-> NoDl]
  /\ isRunning = FALSE
  /\ batch = << >>
  /\ message = NoMsg
  /\ recIdx = 0
  /\ health = NoHealth
  /\ notes = << >>
  /\ summary = NoSummary
  /\ receives = 0
  /\ syncs = 0
  /\ crashes = 0
  /\ listing = NoListing
  /\ apiHealth = NoHealth
  /\ hist = NoHist

\* the event loop of an instance whose stop() is called, the bucket unchanged
NextStopCall == Loop \/ Stop

SpecStopCall == InitHealth /\ [][NextStopCall]_vars

\* every await of the loop resolves or rejects
SpecStopCallLive == SpecStopCall /\ WF_vars(Loop)

\* the event loop, time passing, and the health and metrics endpoints
NextHealth == Loop \/ Tick \/ GetHealth \/ GetMetrics

SpecHealth == InitHealth /\ [][NextHealth]_vars

\* the event loop and the HTTP surface as main wires them, and time passing
NextWired == Loop \/ Elapse \/ HttpGet

SpecWired == InitHealth /\ [][NextWired]_vars

\* the bodies of the messages of a batch: not JSON, one update event, an
\* update event followed by a deletion event
BatchBodies == {NotJson, Body(<<RCreated>>), Body(<<RCreated, RRemoved>>)}

\* two messages wait in the queue; the bucket holds the object at K1
InitBatch ==
  /\ remote = [k \in Keys |-> Obj(0, MaxSize)]
  /\ zeroPut = FALSE
  /\ epoch = 0
  /\ \E b1 \in BatchBodies, b2 \in BatchBodies :
       queue = [m \in MsgIds |->
                  [body |-> IF m = "m1" THEN b1 ELSE b2, st |-> "queued"]]
  /\ files = [path \in Paths |-> Absent]
  /\ fd = [p \in Procs |-> NoFd]
  /\ pc = [p \in Procs |-> IF p = "loop" THEN "init" ELSE "idle"]
  /\ dl = [p \in Procs |-> NoDl]
  /\ isRunning = FALSE
  /\ batch = << >>
  /\ message = NoMsg
  /\ recIdx = 0
  /\ health = NoHealth
  /\ notes = << >>
  /\ summary = NoSummary
  /\ receives = 0
  /\ syncs = 0
  /\ crashes = 0
  /\ listing = NoListing
  /\ apiHealth = NoHealth
  /\ hist = NoHist

\* the event loop alone, the bucket unchanged
NextBatch == Loop

SpecBatch == InitBatch /\ [][NextBatch]_vars

(***************************************************************************)
(* Properties                                                              *)
(***************************************************************************)
Final == getLocalModelPath(K1)
Staging == TempPath(Final)

Range(f) == {f[i] : i \in DOMAIN f}

\* the content of a complete copy of the object o
CopyOf(o) == [j \in 1..o.size |-> o]

\* the file at path is a complete copy of one version of the remote object
Complete(path) ==
  LET d == files[path].data
  IN  IF d = << >> THEN zeroPut
      ELSE d[1] # Hole /\ d = CopyOf(d[1])

\* the awaits of shouldUpdateFile, and those of downloadFile
SuPcs == {"su_exists", "su_head", "su_stat"}
DlPcs == {"dl_head", "dl_space", "dl_get", "dl_open", "dl_stream", "dl_verify",
          "dl_clean1", "dl_clean1_rm", "dl_move", "dl_move_rm", "dl_move_mv",
          "dl_clean2", "dl_clean2_rm", "dl_ret"}

\* p is between the creation of its staging file and the return of downloadFile
InFlight(p) == pc[p] \in DlPcs /\ dl[p].opened /\ pc[p] # "dl_ret"

\* C1: under the event loop alone the final path loses its file only in the
\* deletion path (the removal step of handleModelDeletion).
C1_RemovedOnlyByDeletion ==
  [][(Exists(Final) /\ ~Exists(Final)') => pc["loop"] = "del_rm"]_vars

\* C1, the part of the claim that holds: under the event loop alone a file at
\* the final path is a complete copy of a version of the remote object.
C1_AbsentOrComplete == Exists(Final) => Complete(Final)

\* an update of an installed file is in its move step, the final path unlinked
C1_Unlinked ==
  /\ pc["loop"] = "dl_move_mv"
  /\ ~Exists(Final)
  /\ Exists(Staging)
  /\ hist.last.res = "installed"

\* C2: when triggerFullSync and the update path of the loop download the same
\* key concurrently, the final path is at every step absent or a complete copy
\* of the remote object.
C2_ConcurrentAbsentOrComplete ==
  (pc["sync"] # "idle" \/ syncs > 0) => (Exists(Final) => Complete(Final))

\* C3: whatever crashes hit downloadFile, a file at the final path is never
\* truncated or mixed, and after a restart a successful download of the
\* unchanged remote object leaves the final path identical to that object.
C3_CrashAtomicity ==
  /\ Exists(Final) => Complete(Final)
  /\ ( /\ crashes > 0
       /\ pc["loop"] = "notify"
       /\ dl["loop"].e = epoch
       /\ remote[K1] # NoObj )
     => (Exists(Final) /\ files[Final].data = CopyOf(remote[K1]))

\* after a crash and a restart a download has installed the remote object
C3_InstalledAfterCrash ==
  /\ crashes > 0
  /\ pc["loop"] = "notify"
  /\ dl["loop"].e = epoch
  /\ remote[K1] # NoObj
  /\ remote[K1].size = MaxSize
  /\ files[Final].data = CopyOf(remote[K1])

\* C4: a message whose handling raised is not deleted in that delivery: no
\* delete request follows the raise and the message stays in the queue.
C4_RaisedNotDeleted ==
  "raised" \in Range(hist.mlog) =>
    (hist.mlog = <<"raised">> /\ queue[message].st = "queued")

\* the download of a message failed, the message is still queued
C4_RaisedByDownload ==
  /\ hist.mlog = <<"raised">>
  /\ hist.cause = "download"
  /\ pc["loop"] = "next_msg"
  /\ queue[message].st = "queued"

\* the log of a delivery whose events were all handled
HandledLog == <<"handled", "delete", "tracked">>

\* C5: for every received message the order is: handle all events, then the
\* delete request, then updateLastProcessed; the delete request and the
\* tracker update happen only when every event was handled without error, and
\* the tracker is never updated for a message whose handling raised.
C5_HandleDeleteTrack ==
  /\ [](/\ \/ hist.mlog = <<"raised">>
           \/ hist.mlog = SubSeq(HandledLog, 1, Len(hist.mlog))
        /\ "handled" \in Range(hist.mlog) =>
             hist.done = Len(queue[message].body.Records)
        /\ pc["loop"] = "delete_msg" => hist.mlog = <<"handled">>
        /\ pc["loop"] = "update_health" => hist.mlog = <<"handled", "delete">>)
  /\ [][health' # health => (hist.mlog = <<"handled", "delete">>
                              /\ hist'.mlog = HandledLog)]_vars

\* a message of two events was handled, deleted and tracked
C5_Tracked ==
  /\ hist.mlog = HandledLog
  /\ hist.done = 2
  /\ queue[message].st = "deleted"
  /\ health.last

\* a body with one well-formed event and one malformed event
Malformed == {RNoS3, RBadEnc}
Mixed(body) ==
  /\ Len(body.Records) = 2
  /\ RCreated \in Range(body.Records)
  /\ Range(body.Records) \cap Malformed # {}

\* C6: handling a message with one well-formed and one malformed event, in
\* either order, does not raise for the malformed event.
C6_MalformedTolerated ==
  (message # NoMsg /\ Mixed(queue[message].body)) => hist.cause # "malformed"

\* the loop is in a run of the update path (in shouldUpdateFile or in
\* downloadFile, which precedes the notification) that follows a successful
\* run for the same key, the remote object unchanged since that run began
SecondRun ==
  /\ pc["loop"] \in SuPcs \cup DlPcs
  /\ dl["loop"].key = K1
  /\ hist.last.res \in {"installed", "uptodate"}
  /\ hist.last.e = epoch
  /\ remote[K1] # NoObj

\* C7 as claimed: in the second of two successive runs of the update path for
\* an unchanged remote object no download is attempted and no notification is
\* sent.
C7_SecondRunNoDownload == SecondRun => pc["loop"] \in SuPcs

\* C7, amended: the same, unless the describe call of the second run fails
\* (the catch of shouldUpdateFile answers true).
C7_SecondRunNoDownloadUnlessError ==
  (SecondRun /\ ~dl["loop"].suErr) => pc["loop"] \in SuPcs

\* a second run has answered that the installed file is up to date
C7_SecondRunUpToDate ==
  /\ hist.last.twice
  /\ hist.last.e = epoch
  /\ remote[K1] # NoObj
  /\ Exists(Final)
  /\ pc["loop"] = "record"

ReturnsAfterStaging == pc["loop"] = "dl_ret" /\ (dl["loop"].ok \/ dl["loop"].opened)

\* C9 as claimed: whenever downloadFile returns, with success or with a
\* failure after the staging file was created, no staging file remains.
C9_NoStagingLeft == ReturnsAfterStaging => ~Exists(Staging)

\* C9, amended: the same, unless the removal of the staging file itself
\* failed (cleanupTempFile logs the failure and goes on).
C9_NoStagingLeftUnlessRemoveFails ==
  (ReturnsAfterStaging /\ ~dl["loop"].rmfail) => ~Exists(Staging)

\* a failed download returns, its staging file cleaned up
C9_CleanedUp ==
  /\ pc["loop"] = "dl_ret"
  /\ dl["loop"].opened
  /\ ~dl["loop"].ok
  /\ ~dl["loop"].rmfail
  /\ dl["loop"].n > 0
  /\ ~Exists(Staging)

\* C10: no two in-flight downloads of one instance use the same staging path
\* at the same time.
C10_StagingOwnedExclusively ==
  \A p, q \in Procs :
    (p # q /\ InFlight(p) /\ InFlight(q)) => TempOf(p) # TempOf(q)

\* C11: downloadFile renames a staging file onto the final path only if its
\* size equals the size of the descriptor fetched first, for every descriptor
\* size including 0: a download that returns success has installed a file of
\* the descriptor size.
C11_InstalledSizeIsDescriptorSize ==
  \A p \in Procs :
    (pc[p] = "dl_ret" /\ dl[p].ok) => SizeOf(LocalOf(p)) = dl[p].exp

\* shouldUpdateFile of p answers in this step: true (the caller goes on to
\* downloadFile) or false (the caller leaves the update path)
SuAnswers(p) == pc[p] \in SuPcs /\ pc'[p] \notin SuPcs
SuTrue(p) == SuAnswers(p) /\ pc'[p] = "dl_head"
SuFalse(p) == SuAnswers(p) /\ pc'[p] \notin DlPcs

\* C12: with a local file and a remote object, shouldUpdateFile answers true
\* if the sizes differ, otherwise true if the remote last-modified time is
\* strictly after the local modification time, otherwise false.
C12_StalenessDecision ==
  [][\A p \in Procs :
       (pc[p] = "su_stat" /\ SuAnswers(p) /\ Exists(LocalOf(p))) =>
         LET local == files[LocalOf(p)]
             s3 == dl[p].body
         IN  IF Len(local.data) # s3.size THEN SuTrue(p)
             ELSE IF s3.ver > local.mtime THEN SuTrue(p)
             ELSE SuFalse(p)]_vars

\* what a full sync recorded for the keys it has iterated
Whys == {summary.outs[i].why : i \in DOMAIN summary.outs}

\* a sweep found a file of the remote size older than the remote object, and
\* one as new as the remote object
C12_NewerAndSame == {"newer", "same"} \subseteq Whys

\* C13: shouldUpdateFile never raises; without a local file it answers true
\* and does not consult the remote store; with a local file and no remote
\* object it answers false; on an error of the describe call or of the stat
\* it answers true.
C13_EdgeCases ==
  [][\A p \in Procs :
       /\ (pc[p] = "su_exists" /\ pc'[p] # pc[p]) =>
             IF Exists(LocalOf(p)) THEN pc'[p] = "su_head" ELSE SuTrue(p)
       /\ (pc[p] = "su_head" /\ pc'[p] # pc[p]) =>
             \/ SuTrue(p) /\ dl'[p].suErr
             \/ SuFalse(p) /\ remote[dl[p].key] = NoObj
             \/ pc'[p] = "su_stat" /\ remote[dl[p].key] # NoObj
       /\ (pc[p] = "su_stat" /\ ~Exists(LocalOf(p)) /\ pc'[p] # pc[p]) =>
             SuTrue(p) /\ dl'[p].suErr
       /\ SuAnswers(p) =>
             /\ SuTrue(p) \/ SuFalse(p)
             /\ summary'.errors = summary.errors
             /\ hist'.mlog = hist.mlog]_vars

\* a sweep left a local file alone whose remote object is gone, and downloaded
\* for a key without local file
C13_AbsentAndNoLocal == {"absent", "nolocal"} \subseteq Whys

\* the keys that qualify as model files
ModelKeys == {k \in BucketKeys : isModelFile(k)}

\* the qualifying keys the bucket held when the sweep listed it, in listing order
Candidates == SelectSeq(KeyList, LAMBDA k : k \in summary.bucket \cap ModelKeys)

\* the keys the sweep has iterated, and those among them with outcome o
OutKeys == [i \in DOMAIN summary.outs |-> summary.outs[i].key]
OutsWith(o) == SelectSeq(summary.outs, LAMBDA r : r.out = o)
KeysWith(o) == [i \in DOMAIN OutsWith(o) |-> OutsWith(o)[i].key]

\* the loop body of triggerFullSync ends for the current key in this step
KeyDone == pc["sync"] \in SuPcs \cup DlPcs /\ pc'["sync"] \notin SuPcs \cup DlPcs

\* triggerFullSync returns its summary in this step
SyncReturns == pc["sync"] # "idle" /\ pc'["sync"] = "idle"

\* between two keys, the keys still to do are the candidates not yet iterated
SweepInOrder ==
  pc["sync"] = "next_key" =>
    summary.todo = SubSeq(Candidates, Len(summary.outs) + 1, Len(Candidates))

\* a completed sweep has iterated every candidate, and its counts are those of
\* the outcomes
SweepComplete ==
  (summary.returned /\ summary.total > 0) =>
    /\ OutKeys = Candidates
    /\ summary.errors = KeysWith("failed")
    /\ summary.synced = Len(KeysWith("installed"))

\* C14: one key's failure never aborts the sweep. Each key's loop body goes on
\* to the next key; a download that returned success is counted in
\* syncedModels, a failed one adds one entry naming its key to the errors, and
\* nothing else changes either; a sweep that completes has attempted every
\* candidate key in listing order.
C14_FailureIsolated ==
  [][/\ KeyDone =>
          LET ret == pc["sync"] = "dl_ret"
              key == dl["sync"].key
          IN  /\ pc'["sync"] = "next_key"
              /\ summary.todo # << >> /\ key = Head(summary.todo)
              /\ summary'.todo = Tail(summary.todo)
              /\ summary'.synced =
                   summary.synced + (IF ret /\ dl["sync"].ok THEN 1 ELSE 0)
              /\ summary'.errors =
                   IF ret /\ ~dl["sync"].ok THEN Append(summary.errors, key)
                   ELSE summary.errors
              /\ SweepInOrder'
     /\ SyncReturns => SweepComplete']_vars

\* a sweep over two candidate keys returned: the download of the first failed,
\* the second was downloaded all the same, and the error list names the first
C14_OneOfTwoFailed ==
  /\ summary.returned
  /\ Candidates = <<K1, K2>>
  /\ summary.errors = <<K1>>
  /\ summary.synced = 1
  /\ summary.outs[2].out = "installed"
  /\ Exists(getLocalModelPath(K2))

\* the flag and the counts of a returned summary
SummaryConsistent ==
  summary.returned =>
    /\ summary.success <=> (summary.errors = << >>)
    /\ summary.total = Cardinality(summary.bucket \cap ModelKeys)
    /\ summary.synced = Len(OutsWith("installed"))

\* C15: every summary triggerFullSync returns has success true exactly if its
\* error list is empty, totalModels equal to the number of qualifying keys
\* listed (0 when the listing failed) and syncedModels equal to the number of
\* downloads that returned success; every call ends by returning a summary.
C15_SummaryConsistent ==
  [][SyncReturns => (summary'.returned /\ SummaryConsistent')]_vars

\* a sweep of a bucket with two qualifying keys and one other key returned
\* after downloading both
C15_Returned ==
  /\ summary.returned
  /\ summary.bucket = BucketKeys
  /\ summary.total = 2
  /\ summary.synced = 2
  /\ summary.success

\* the bucket is as the running (or last) sweep found it
BucketUnchanged ==
  /\ epoch = summary.e0
  /\ pc["sync"] = "list" \/ Held = summary.bucket

\* a sweep that immediately follows a successful one is running, and the
\* bucket has not changed since the first of the two listed it
SecondSweep == pc["sync"] # "idle" /\ summary.again /\ BucketUnchanged

\* a describe call of a staleness check of the running sweep failed
DescribeFailed == dl["sync"].suErr \/ "error" \in Whys

\* after a successful sweep every qualifying object of the unchanged bucket
\* has a local file of its size
Converged ==
  (summary.returned /\ summary.success /\ BucketUnchanged) =>
    \A k \in Held \cap ModelKeys :
      /\ Exists(getLocalModelPath(k))
      /\ SizeOf(getLocalModelPath(k)) = remote[k].size

\* C16 as stated: full reconciliation converges and is idempotent. After a
\* sweep that returns success with the bucket unchanged, every qualifying
\* object has a local file of its size, and a sweep that follows at once
\* downloads nothing (syncedModels stays 0) and changes no file.
C16_Idempotent ==
  [][/\ SyncReturns => Converged'
     /\ SecondSweep => (files' = files /\ summary'.synced = 0)]_vars

\* C16 with the exception the code makes: the same, provided no describe
\* call of the second sweep's staleness checks fails (a failed describe
\* call makes shouldUpdateFile answer true and the key is downloaded again).
C16_IdempotentUnlessError ==
  [][/\ SyncReturns => Converged'
     /\ (SecondSweep /\ ~DescribeFailed') =>
          (files' = files /\ summary'.synced = 0)]_vars

\* the second of two sweeps of an unchanged bucket with two qualifying objects
\* returned: both files were found up to date
C16_SecondSweepQuiet ==
  /\ summary.returned /\ summary.again /\ BucketUnchanged
  /\ summary.success
  /\ Candidates = <<K1, K2>>
  /\ summary.synced = 0
  /\ Whys = {"same"}

\* the keys with a file at their final path
LocalKeys == {k \in BucketKeys : Exists(getLocalModelPath(k))}

\* a successful sweep of the bucket as it is now has returned
SweptNow == summary.returned /\ summary.success /\ BucketUnchanged

\* C17 as stated: after a successful sweep the qualifying keys present under
\* the base path are exactly the qualifying keys in the bucket, also when a
\* local file exists for a key that is no longer in the bucket.
C17_Mirror ==
  [][SyncReturns => (SweptNow' => LocalKeys' = Held' \cap ModelKeys)]_vars

\* C17 as the code has it: after a successful sweep every qualifying key in
\* the bucket is present under the base path at <base>/<key> and no other
\* key of the bucket is; the sweep never touches the files of a key it did
\* not list, so a local file whose object is gone stays.
C17_RemoteKeysPresent ==
  [][/\ SyncReturns =>
          (SweptNow' => /\ Held' \cap ModelKeys \subseteq LocalKeys'
                        /\ LocalKeys' \subseteq ModelKeys)
     /\ pc["sync"] \in SuPcs \cup DlPcs =>
          \A k \in BucketKeys \ summary.bucket :
            /\ files'[getLocalModelPath(k)] = files[getLocalModelPath(k)]
            /\ files'[TempPath(getLocalModelPath(k))] =
                 files[TempPath(getLocalModelPath(k))]]_vars

\* a successful sweep returned with the bucket as it listed it, and the file
\* of an object deleted before the sweep is still there
C17_Swept ==
  /\ SweptNow
  /\ K1 \in Held /\ K1 \in LocalKeys
  /\ K2 \notin Held /\ K2 \in LocalKeys

\* the loop takes a step of the update path
LoopStep == pc'["loop"] # pc["loop"] \/ dl'["loop"] # dl["loop"]

\* C18: on the event update path a notification for a key is sent only after
\* the staging file of that key was renamed onto the final path in the same
\* run, one send is attempted per successful download, and a failed download
\* sends nothing and raises, so that the message stays queued.
C18_NotifyAfterInstall ==
  [][/\ (pc'["loop"] = "notify" /\ pc["loop"] # "notify") =>
          /\ pc["loop"] = "dl_ret" /\ dl["loop"].ok
          /\ Exists(LocalOf("loop")) /\ ~Exists(TempOf("loop"))
     /\ (notes' # notes /\ notes' # << >>) =>
          /\ pc["loop"] = "notify"
          /\ Len(notes') = Len(notes) + 1
          /\ SubSeq(notes', 1, Len(notes)) = notes
          /\ notes'[Len(notes')].path = dl["loop"].key
     /\ (pc["loop"] = "notify" /\ LoopStep) => pc'["loop"] # "notify"
     /\ (pc["loop"] = "dl_ret" /\ ~dl["loop"].ok /\ LoopStep) =>
          /\ notes' = notes
          /\ hist'.mlog = <<"raised">> /\ hist'.cause = "download"
          /\ pc'["loop"] = RaisedNext
          /\ queue' = queue /\ queue[message].st # "deleted"]_vars

\* the notification of an installed file has been sent
C18_Notified ==
  /\ Len(notes) = 1 /\ notes[1].path = K1
  /\ hist.last.res = "installed"
  /\ Exists(Final) /\ ~Exists(Staging)
  /\ pc["loop"] = "record"

\* the loop's run of the update path began without a local file, and the
\* object is the one the bucket held when the run began
FreshRun ==
  /\ dl["loop"].why = "nolocal"
  /\ dl["loop"].e = epoch
  /\ remote[dl["loop"].key] # NoObj

\* C19: a creation event for a qualifying key that is absent locally leads to
\* one download; afterwards the size of the local file, the size in the
\* download result and the size in the one notification published are all the
\* size of the remote object.
C19_SizesAgree ==
  [][/\ (pc["loop"] = "dl_ret" /\ dl["loop"].ok /\ FreshRun) =>
          /\ SizeOf(LocalOf("loop")) = remote[dl["loop"].key].size
          /\ dl["loop"].n = remote[dl["loop"].key].size
     /\ (pc["loop"] = "notify" /\ notes' # notes /\ FreshRun) =>
          /\ notes' = Append(notes, [path |-> dl["loop"].key,
                                     size |-> remote[dl["loop"].key].size])
          /\ SizeOf(LocalOf("loop")) = remote[dl["loop"].key].size]_vars

\* the first record of the first delivery, for a key without local file, has
\* been handled: the notification of a download of MaxSize chunks has been
\* published with that size
C19_NotifiedSize ==
  /\ receives = 1 /\ hist.done = 1 /\ pc["loop"] = "record"
  /\ notes = <<[path |-> K1, size |-> MaxSize]>>
  /\ remote[K1].size = MaxSize
  /\ Len(files[Final].data) = MaxSize
  /\ hist.last.res = "installed" /\ hist.last.e = epoch

\* a run of the update path for a key whose latest install went unannounced
\* (the send failed), with the object and the installed file unchanged since
Redelivered ==
  /\ pc["loop"] \in SuPcs \cup DlPcs \cup {"notify"}
  /\ dl["loop"].key = K1
  /\ hist.last.unsent
  /\ hist.last.e = epoch
  /\ remote[K1] # NoObj

\* a failed send raises out of the update operation: handling the message
\* ends with the error and without a delete request
SendFailureRaises ==
  [][(pc["loop"] = "notify" /\ LoopStep /\ notes' = notes) =>
        /\ hist'.mlog = <<"raised">> /\ hist'.cause = "notify"
        /\ hist'.last.unsent
        /\ pc'["loop"] = RaisedNext
        /\ queue' = queue /\ queue[message].st # "deleted"]_vars

\* C20 as stated: a notification is never retried. A failed send raises and
\* the message is not deleted; when the message is delivered again with the
\* object unchanged, shouldUpdateFile answers false, so nothing is downloaded
\* and nothing is sent.
C20_NoResend ==
  /\ SendFailureRaises
  /\ [](Redelivered => pc["loop"] \in SuPcs)

\* C20 with the exception the code makes: the same, unless the describe call
\* of the later run fails (shouldUpdateFile then answers true, the file is
\* installed and announced again).
C20_NoResendUnlessError ==
  /\ SendFailureRaises
  /\ []((Redelivered /\ ~dl["loop"].suErr) => pc["loop"] \in SuPcs)

\* after a failed send the message was delivered again, found up to date,
\* and deleted without any send
C20_DeletedUnsent ==
  /\ hist.mlog = HandledLog
  /\ hist.last.unsent /\ hist.last.twice
  /\ hist.last.e = epoch
  /\ queue[message].st = "deleted"
  /\ notes = << >>

\* C21: every successful install, by the event update path or by
\* triggerFullSync, is followed by the publication of a notification for the
\* key: once triggerFullSync has returned, a notification has been published
\* for every key it installed.
C21_SweepInstallAnnounced ==
  summary.returned =>
    \A i \in DOMAIN summary.outs :
      summary.outs[i].out = "installed" =>
        \E j \in DOMAIN notes : notes[j].path = summary.outs[i].key

\* C22: the deletion path never raises and is idempotent. Every step of it
\* goes on without an error; with no file at the final path it returns at
\* once, leaving the files alone; a removal either removes the file or fails,
\* and in both cases the path returns normally and the record counts as
\* handled.
C22_DeletionIdempotent ==
  [][(pc["loop"] \in {"del", "del_rm"} /\ LoopStep) =>
        /\ hist'.mlog = hist.mlog /\ hist'.cause = hist.cause
        /\ pc'["loop"] \in {"del_rm", "record"}
        /\ pc'["loop"] = "record" => hist'.done = hist.done + 1
        /\ (pc["loop"] = "del" /\ ~Exists(LocalOf("loop"))) =>
             (pc'["loop"] = "record" /\ files' = files)
        /\ (pc["loop"] = "del" /\ Exists(LocalOf("loop"))) =>
             (pc'["loop"] = "del_rm" /\ files' = files)
        /\ pc["loop"] = "del_rm" =>
             /\ pc'["loop"] = "record"
             /\ files' = files \/ ~files'[LocalOf("loop")].ex]_vars

\* a message with one Removed event was delivered a second time and handled
\* again without error, the file being absent
C22_DeletedTwice ==
  /\ receives = 2
  /\ message # NoMsg /\ queue[message].body = Body(<<RRemoved>>)
  /\ pc["loop"] = "delete_msg"
  /\ hist.mlog = <<"handled">>
  /\ ~Exists(Final)

\* the for loop of processMessages takes the next message in this step
TakesMessage == pc["loop"] = "next_msg" /\ batch # << >> /\ batch' # batch

\* C23: a message whose body is not valid JSON is logged and skipped: the
\* error stays inside processMessages, which goes on with the remaining
\* messages of the batch and then returns to the pause before the next poll;
\* the loop keeps running.
C23_InvalidBodySkipped ==
  [][/\ (TakesMessage /\ ~queue[Head(batch)].body.json) =>
          /\ message' = Head(batch) /\ batch' = Tail(batch)
          /\ hist'.mlog = <<"raised">> /\ hist'.cause = "parse"
          /\ pc'["loop"] = "next_msg"
          /\ queue' = queue /\ health' = health /\ isRunning' = isRunning
     /\ (pc["loop"] = "next_msg" /\ hist.cause = "parse" /\ LoopStep) =>
          /\ isRunning'
          /\ IF batch = << >> THEN pc'["loop"] = "sleep"
             ELSE message' = Head(batch)]_vars

\* the first message of a batch of two was not JSON and stays queued; the
\* second has been handled, deleted and tracked
C23_SkippedThenHandled ==
  /\ hist.got = <<"m1", "m2">>
  /\ queue["m1"].body = NotJson /\ queue["m1"].st = "queued"
  /\ message = "m2"
  /\ hist.mlog = HandledLog

\* C24: when a poll/processing cycle fails with an error (the receive call
\* fails), the engine does not terminate and pauses for the longer backoff
\* interval instead of the normal pause before it polls again.
C24_FailedCycleBacksOff ==
  hist.cause = "receive" =>
    /\ isRunning
    /\ pc["loop"] \in {"sleep", "backoff"} => PauseAt(pc["loop"]) = ErrorPause

\* the positions of the loop inside handleS3Event
RecordPcs == SuPcs \cup DlPcs \cup {"notify", "del", "del_rm"}

\* the decoded key of every record of the batch bodies
KeyOfRecord ==
  [r \in UNION {Range(b.Records) : b \in BatchBodies} |->
     DecodeURIComponent(r.key).val]

\* the loop is at the message of the received batch that precedes the
\* messages still to do, and inside its record number recIdx, the earlier
\* records being done; it polls only with no batch in progress
Sequential ==
  /\ message # NoMsg =>
       LET n == Len(hist.got) - Len(batch)
       IN  /\ n >= 1
           /\ hist.got[n] = message
           /\ batch = SubSeq(hist.got, n + 1, Len(hist.got))
  /\ pc["loop"] \in RecordPcs =>
       /\ message # NoMsg
       /\ recIdx \in 1..Len(queue[message].body.Records)
       /\ hist.done = recIdx - 1
       /\ dl["loop"].key = KeyOfRecord[queue[message].body.Records[recIdx]]
  /\ pc["loop"] = "receive" => (batch = << >> /\ message = NoMsg)

\* C25: the event loop is strictly sequential. It takes the messages of a
\* batch one at a time in receive order, the next one only after the handling
\* of the current one has raised or its delete attempt and tracker update are
\* done; the records of a message are handled in array order; no receive is
\* issued while a batch is in progress.
C25_StrictlySequential ==
  [][/\ Sequential'
     /\ TakesMessage =>
          /\ message' = Head(batch) /\ batch' = Tail(batch)
          /\ message # NoMsg => hist.mlog \in {HandledLog, <<"raised">>}
     /\ (batch' # batch /\ ~TakesMessage) =>
          (pc["loop"] = "receive" /\ batch = << >>)
     /\ recIdx' # recIdx => recIdx' \in {0, 1, recIdx + 1}]_vars

\* the second message of a batch received as m2, m1 is at its second record,
\* after the first message was handled and deleted
C25_SecondOfBatch ==
  /\ hist.got = <<"m2", "m1">>
  /\ message = "m1" /\ batch = << >>
  /\ queue["m2"].st = "deleted"
  /\ queue["m1"].body = Body(<<RCreated, RRemoved>>)
  /\ pc["loop"] = "del" /\ recIdx = 2 /\ hist.done = 1

\* the awaits of downloadFile between the creation of the staging file and
\* its rename or cleanup
StagingPcs == {"dl_stream", "dl_verify", "dl_clean1", "dl_clean1_rm", "dl_move",
               "dl_move_rm", "dl_move_mv", "dl_clean2", "dl_clean2_rm"}

\* C26: graceful drain. The process does not exit on a stop request until the
\* current cycle of the loop has finished, so the exit never interrupts a
\* download between the creation of its staging file and its rename or
\* cleanup.
C26_ExitAfterCycle ==
  pc["loop"] = "exited" => hist.cut \notin StagingPcs

\* C27: downloadFile never raises. Its caller resumes only from the return
\* of a result; no step inside it fails the message or the sweep; the result
\* carries the chunks counted so far (counted one per chunk written); a
\* result with success true comes only from the completed rename.
C27_DownloadNeverRaises ==
  [][\A p \in Procs :
       /\ (pc[p] \in DlPcs /\ pc'[p] \notin DlPcs) => pc[p] = "dl_ret"
       /\ (pc[p] \in DlPcs \ {"dl_ret"} /\ pc'[p] # pc[p]) =>
            /\ hist'.mlog = hist.mlog
            /\ summary'.errors = summary.errors
            /\ dl'[p].n = dl[p].n
       /\ (pc[p] \in DlPcs /\ pc'[p] \in DlPcs /\ dl'[p].n # dl[p].n) =>
            (pc[p] = "dl_stream" /\ dl'[p].n = dl[p].n + 1
             /\ Len(files'[TempOf(p)].data) >= dl'[p].n)
       /\ (pc'[p] = "dl_ret" /\ pc[p] # "dl_ret") =>
            IF dl'[p].ok
              THEN /\ pc[p] = "dl_move_mv"
                   /\ Exists(TempOf(p))
                   /\ files'[LocalOf(p)].ex
                   /\ files'[LocalOf(p)].data = files[TempOf(p)].data
                   /\ ~files'[TempOf(p)].ex
              ELSE dl'[p].n = dl[p].n /\ files'[LocalOf(p)] = files[LocalOf(p)]]_vars

\* downloadFile returns a failure after one chunk of two was transferred
C27_FailedAfterPartial ==
  /\ pc["loop"] = "dl_ret"
  /\ ~dl["loop"].ok
  /\ dl["loop"].n = 1
  /\ dl["loop"].body.size = MaxSize

\* C28: a failure of the queue delete call after a message was handled is
\* logged and not raised: whether or not the call removed the message,
\* processMessages goes on to update the health tracker, no failure is
\* recorded for the message, the delete is attempted once, and the loop then
\* takes the following message of the batch (or pauses when there is none).
C28_DeleteFailureSwallowed ==
  [][/\ pc["loop"] = "delete_msg" =>
          /\ pc'["loop"] = "update_health"
          /\ hist'.mlog = <<"handled", "delete">>
          /\ hist'.cause = hist.cause
          /\ message' = message /\ batch' = batch
          /\ \A m \in MsgIds \ {message} : queue'[m] = queue[m]
     /\ pc["loop"] = "update_health" =>
          /\ pc'["loop"] = "next_msg"
          /\ hist'.mlog = HandledLog
          /\ hist'.cause = "none"
          /\ health'.last /\ health'.healthy
          /\ queue' = queue
     /\ (pc["loop"] = "next_msg" /\ hist.mlog = HandledLog /\ LoopStep) =>
          /\ isRunning'
          /\ queue' = queue
          /\ IF batch = << >> THEN pc'["loop"] = "sleep"
             ELSE message' = Head(batch) /\ hist'.mlog # HandledLog]_vars

\* the delete of the first message of a batch of two failed: the message was
\* handled and tracked and is still queued, and the loop is at the second one
C28_UndeletedThenNext ==
  /\ hist.got = <<"m1", "m2">>
  /\ receives = 1
  /\ message = "m2"
  /\ pc["loop"] \notin {"next_msg", "sleep"}
  /\ health.last
  /\ queue["m1"].st = "queued"
  /\ queue["m1"].body.json

\* C29: getHealth answers 'unhealthy' and stores the flag when the time since
\* the last processed message exceeds the threshold; the stored flag makes
\* getHealth and getMetrics answer 'unhealthy' until updateLastProcessed sets
\* the time to now and the flag to healthy; nothing else changes the flag, and
\* a tracker that never recorded a message is never unhealthy.
C29_TrackerStateMachine ==
  /\ [](~health.last => health.healthy)
  /\ [][/\ (health'.report # health.report /\ health'.report.by = "health") =>
            /\ health'.report.status =
                 (IF ~health.healthy \/ (health.last /\ health.idle > MaxIdle)
                    THEN "unhealthy" ELSE "healthy")
            /\ health'.healthy =
                 (health.healthy /\ ~(health.last /\ health.idle > MaxIdle))
            /\ health'.last = health.last /\ health'.idle = health.idle
        /\ (health'.report # health.report /\ health'.report.by = "metrics") =>
            /\ health'.report.status =
                 (IF health.healthy THEN "healthy" ELSE "unhealthy")
            /\ health'.healthy = health.healthy
            /\ health'.last = health.last /\ health'.idle = health.idle
        /\ (~health.healthy /\ health'.healthy) =>
            /\ pc["loop"] = "update_health"
            /\ health'.last /\ health'.idle = 0
        /\ (health.healthy /\ ~health'.healthy) =>
            /\ health'.report.by = "health" /\ health'.report # health.report
            /\ health.last /\ health.idle > MaxIdle
        /\ (health.last /\ ~health'.last) => FALSE]_vars

\* getHealth stored the flag after an idle period, and a later getMetrics call
\* answers 'unhealthy'
C29_StoredUnhealthy ==
  /\ ~health.healthy
  /\ health.last
  /\ health.report.by = "metrics"
  /\ health.report.status = "unhealthy"

\* C30: an update run of the loop that failed because the object was absent
\* when downloadFile described it is final for its message: no later delivery
\* of the message ends in such a failure again.
C30_NotFoundTerminal ==
  hist.last.gone => ~(pc["loop"] = "dl_ret" /\ dl["loop"].gone)

\* the qualifying keys among ListKeys
ListModelKeys == {k \in ListKeys : isModelFile(k)}

\* C31: listAllModels follows the continuation tokens until a page comes
\* without one and then returns the qualifying keys of the whole bucket, each
\* once and in listing order; a failing page makes the call raise and return
\* no list; a call ends once the store serves a page without a token.
C31_ListsAllPages ==
  /\ [](listing.st = "returned" =>
         /\ listing.out
              = <<SelectSeq(HeldList, LAMBDA k : k \in ListModelKeys)>>
         /\ listing.token = 0)
  /\ [](listing.st = "raised" => listing.out = << >>)
  /\ [](listing.st \in {"idle", "page"} => listing.out = << >>)
  /\ (listing.st = "page" ~> listing.st \in {"returned", "raised"})

\* a bucket of five keys was listed in three pages and the three qualifying
\* keys were returned
C31_ThreePages ==
  /\ listing.st = "returned"
  /\ listing.pages = 3
  /\ Len(HeldList) = 5
  /\ listing.out = << <<K1, K2, K3>> >>

\* C32: the flag cleared by stop() is read only by the loop condition: the
\* call itself interrupts nothing, a receive is issued only after the
\* condition read the flag as set, start() returns only from the condition
\* and never runs again, and once stop() was called start() returns when the
\* cycle in progress and its pause have ended.
C32_StopAtCycleEnd ==
  /\ [][/\ (isRunning /\ ~isRunning') =>
            (pc' = pc /\ dl' = dl /\ files' = files /\ queue' = queue
             /\ batch' = batch)
        /\ (pc'["loop"] = "receive" /\ pc["loop"] # "receive") =>
            (pc["loop"] = "while" /\ isRunning)
        /\ (pc'["loop"] = "stopped" /\ pc["loop"] # "stopped") =>
            (pc["loop"] = "while" /\ ~isRunning)
        /\ pc["loop"] = "stopped" => pc'["loop"] = "stopped"]_vars
  /\ ((~isRunning /\ pc["loop"] # "init") ~> pc["loop"] = "stopped")

\* stop() was called during a download; the download was completed and the
\* file installed before start() returned
C32_StoppedAfterInstall ==
  /\ pc["loop"] = "stopped"
  /\ hist.cut \in DlPcs
  /\ hist.last.res = "installed"
  /\ Exists(Final)

\* the records of the current message that handleS3Event was called for
Attempted == hist.done + (IF hist.cause = "none" THEN 0 ELSE 1)

\* C33: the events of a message are handled independently: when the handling
\* of a message has ended, with or without an error, handleS3Event was called
\* for every record of it.
C33_EventsIndependent ==
  ( /\ pc["loop"] = "next_msg"
    /\ message # NoMsg
    /\ hist.mlog # << >>
    /\ queue[message].body.hasRecords )
  => Attempted = Len(queue[message].body.Records)

\* the records whose decoded key is no model file or has fewer than two
\* path segments
DroppedRecords ==
  {r \in EventRecords :
     /\ r.s3
     /\ DecodeURIComponent(r.key).ok
     /\ LET key == DecodeURIComponent(r.key).val
        IN  ~isModelFile(key) \/ SplitCount(key) < 2}

\* the loop is about to call handleS3Event for a record of DroppedRecords
AtDropped ==
  /\ pc["loop"] = "record"
  /\ recIdx <= Len(queue[message].body.Records)
  /\ queue[message].body.Records[recIdx] \in DroppedRecords

\* a step of the bucket's writers
EnvStep == remote' # remote \/ epoch' # epoch

OnlyDropped(body) ==
  body.hasRecords /\ body.Records # << >>
  /\ Range(body.Records) \subseteq DroppedRecords

\* C34: an event whose decoded key is no model file or has fewer than two
\* path segments is dropped: handleS3Event returns at once, with no request
\* to the bucket, no change of a file, no notification and no error, and the
\* next record is taken; a message of such events only is never failed and
\* goes to the delete request.
C34_DroppedWithoutEffect ==
  /\ [][(AtDropped /\ ~EnvStep) =>
          /\ pc'["loop"] = "record" /\ recIdx' = recIdx + 1
          /\ remote' = remote
          /\ dl'["loop"] = NoDl
          /\ files' = files /\ fd' = fd /\ notes' = notes /\ queue' = queue
          /\ hist'.mlog = hist.mlog /\ hist'.cause = hist.cause
          /\ hist'.done = hist.done + 1]_vars
  /\ []((message # NoMsg /\ OnlyDropped(queue[message].body)) =>
          /\ pc["loop"] \in {"record", "delete_msg", "update_health", "next_msg"}
          /\ hist.cause = "none"
          /\ notes = << >>)
  /\ [][(pc["loop"] = "record" /\ ~AtDropped /\ ~EnvStep
          /\ OnlyDropped(queue[message].body)) =>
           (pc'["loop"] = "delete_msg" /\ hist'.mlog = <<"handled">>)]_vars

\* a message of two dropped events was deleted and tracked on its first
\* delivery, with no file created
C34_DroppedAndDeleted ==
  /\ message # NoMsg
  /\ queue[message].body = Body(<<RNonModel, ROneSeg>>)
  /\ hist.mlog = HandledLog
  /\ queue[message].st = "deleted"
  /\ receives = 1
  /\ \A path \in Paths : ~Exists(path)

\* C35: with the object at K1 present and unchanged and a queued message
\* delivered again for as long as it is not deleted, if from some time on the
\* receive, download, notification and delete calls do not fail, a message of
\* update events for K1 is deleted in the end; and whenever it is deleted the
\* local file exists with the remote size.
C35_RetryConverges ==
  /\ <>[][~FailedCall]_vars => <>(queue["m1"].st = "deleted")
  /\ [](queue["m1"].st = "deleted" =>
         (Exists(Final) /\ SizeOf(Final) = remote[K1].size))

\* the notification of the first delivery failed, the message was delivered
\* again, found up to date and deleted
C35_DeletedOnRetry ==
  /\ queue["m1"].st = "deleted"
  /\ hist.last.unsent /\ hist.last.twice
  /\ Exists(Final) /\ SizeOf(Final) = MaxSize

\* C36: a failed downloadFile leaves the final path as it was: when the loop,
\* running alone, gets a failure from downloadFile for a key whose file its
\* latest run installed or found up to date, the file is still there.
C36_FailedLeavesFinal ==
  ( /\ pc["loop"] = "dl_ret"
    /\ ~dl["loop"].ok
    /\ dl["loop"].key = K1
    /\ hist.last.res \in {"installed", "uptodate"} )
  => Exists(Final)

\* C37: a message whose body is not valid JSON is never deleted: every
\* delivery of it raises in handleMessage and leaves the queue and the tracker
\* alone.  A message whose body is JSON without a Records array is, at every
\* delivery and so at the first, handled without error: the delete call is
\* issued for it (and removes it unless the call fails) and the tracker is
\* updated.
C37_MalformedBodies ==
  /\ [](\A m \in MsgIds : queue[m].body = NotJson => queue[m].st = "queued")
  /\ [][/\ (TakesMessage /\ queue[Head(batch)].body = NotJson) =>
             /\ hist'.mlog = <<"raised">> /\ hist'.cause = "parse"
             /\ pc'["loop"] = "next_msg"
             /\ queue' = queue /\ health' = health
        /\ (TakesMessage /\ queue[Head(batch)].body = NoRecords) =>
             /\ message' = Head(batch)
             /\ hist'.mlog = <<"handled">> /\ hist'.cause = "none"
             /\ pc'["loop"] = "delete_msg"
        /\ (pc["loop"] = "delete_msg" /\ queue[message].body = NoRecords) =>
             /\ queue'[message].st = "deleted" \/ FailedCall
             /\ pc'["loop"] = "update_health"
        /\ (pc["loop"] = "update_health" /\ queue[message].body = NoRecords) =>
             /\ health'.last /\ health'.healthy
             /\ hist'.mlog = HandledLog]_vars

\* the message without a Records array was deleted and tracked; the one that
\* is not JSON has been delivered a second time, alone, has raised again and
\* is still queued
C37_RaisedAgain ==
  /\ queue["m1"].body = NotJson /\ queue["m1"].st = "queued"
  /\ queue["m2"].body = NoRecords /\ queue["m2"].st = "deleted"
  /\ health.last
  /\ receives = 2
  /\ hist.got = <<"m1">>
  /\ hist.mlog = <<"raised">> /\ hist.cause = "parse"

\* C38: once the Removed event of a deletion has been handled (its message
\* is deleted from the queue) and no download of the loop or of
\* triggerFullSync is still running, there is no file at the final path.
C38_RemovedStaysRemoved ==
  ( /\ queue["m2"].st = "deleted"
    /\ remote[K1] = NoObj
    /\ pc["loop"] \notin RecordPcs
    /\ pc["sync"] \notin SuPcs \cup DlPcs )
  => ~Exists(Final)

\* C39: the health verdict served over HTTP reflects the engine's
\* processing: when GET /health or GET /ready is answered after the engine
\* has handled a message, the answering tracker has lastProcessed set, and
\* when the engine has been idle for more than ten minutes since then the
\* answer is 'unhealthy'.
C39_HttpReflectsEngine ==
  [][(apiHealth'.report # apiHealth.report) =>
       /\ health.last => apiHealth.last
       /\ (health.last /\ health.idle > MaxIdle) =>
            apiHealth'.report.status = "unhealthy"]_vars

\* the number of entries of seq that name the key k
CountIn(seq, k) == Len(SelectSeq(seq, LAMBDA x : x = k))

\* the summary is that of a call whose listing failed (its one error message
\* names no key)
ListingFailed == summary.errors = << << >> >>

\* C40 as stated: in every summary triggerFullSync returns,
\* syncedModels + errors.length <= totalModels.
C40_CountsWithinTotal ==
  [][SyncReturns =>
       summary'.synced + Len(summary'.errors) <= summary'.total]_vars

\* C40 with the case the code treats apart: in every summary returned after a
\* listing that succeeded, syncedModels + errors.length <= totalModels, every
\* listed key was iterated once and is counted in syncedModels (its download
\* returned success) or named by one error (it failed) or neither (it was up
\* to date), never both; the summary of a call whose listing failed has
\* totalModels = 0, syncedModels = 0 and one error.
C40_CountsWithinTotalIfListed ==
  [][SyncReturns =>
       IF ListingFailed'
         THEN summary'.total = 0 /\ summary'.synced = 0 /\ ~summary'.success
         ELSE /\ summary'.synced + Len(summary'.errors) <= summary'.total
              /\ Len(summary'.outs) = summary'.total
              /\ summary'.synced = Len(OutsWith("installed")')
              /\ \A k \in BucketKeys :
                   /\ CountIn(OutKeys', k) <= 1
                   /\ CountIn(summary'.errors, k) = CountIn(KeysWith("failed")', k)
                   /\ CountIn(KeysWith("installed")', k)
                        + CountIn(summary'.errors, k) <= CountIn(OutKeys', k)
                   /\ CountIn(KeysWith("uptodate")', k) = 1 =>
                        /\ CountIn(summary'.errors, k) = 0
                        /\ CountIn(KeysWith("installed")', k) = 0]_vars

\* a sweep over two listed keys returned: the first was up to date and is in
\* neither count, the download of the second failed
C40_UpToDateAndFailed ==
  /\ summary.returned
  /\ summary.total = 2
  /\ Len(summary.outs) = 2
  /\ summary.outs[1].out = "uptodate"
  /\ summary.outs[2].out = "failed"
  /\ summary.synced = 0
  /\ summary.errors = <<summary.outs[2].key>>

====
